---- MODULE Spec2Model ----
(***************************************************************************)
(* Instrument drivers ptwDIAMENTOR, ptwUNIDOS and ParkerGV6: every driver  *)
(* operation turns a property get/set or a command method into command     *)
(* strings written to a line transport and decodes the reply line.         *)
(*                                                                         *)
(* Wire strings are sequences of one-character strings, so that slicing,   *)
(* partitioning, replacing and zero padding are computed, not assumed.     *)
(* Python values are tagged records [t, v].                                *)
(***************************************************************************)
EXTENDS Integers, Sequences, FiniteSets, TLC

VARIABLES
    inst,     \* the driver class of the instrument object
    op,       \* the operation the caller invoked last: [kind, name, arg]
    io,       \* the transport events of that operation, in order
    result,   \* what the operation gave the caller: a return or a raise
    lastSet,  \* the property set that the device accepted just before
    unread    \* the reply lines the device has sent and no read has taken

vars == <<inst, op, io, result, lastSet, unread>>

----------------------------------------------------------------------------
(* Bounds of the model                                                     *)

\* how far beyond each end of a declared range the set values are drawn
Margin == 2

\* how far inside each end of a wide range the set values are drawn
Inner == 2

\* the unread reply lines beyond which the caller makes no further call
MaxUnread == 2

----------------------------------------------------------------------------
(* Python values and outcomes                                              *)

PyStr(s) == [t |-> "str", v |-> s]
PyInt(n) == [t |-> "int", v |-> n]
PyFloat(n) == [t |-> "float", v |-> n]   \* only integral floats occur
PyBool(b) == [t |-> "bool", v |-> b]
PyList(l) == [t |-> "list", v |-> l]
PyNone == [t |-> "none"]

Return(v) == [kind |-> "return", value |-> v]
Raise(e, m) == [kind |-> "raise", exc |-> e, msg |-> m]

IsNumber(x) == x.t \in {"int", "float", "bool"}

Num(x) == IF x.t = "bool" THEN (IF x.v THEN 1 ELSE 0) ELSE x.v

\* Python ==: True == 1 == 1.0, strings by content, nothing across kinds
PyEq(a, b) ==
    IF IsNumber(a) /\ IsNumber(b) THEN Num(a) = Num(b)
    ELSE IF a.t = "str" /\ b.t = "str" THEN a.v = b.v
    ELSE FALSE

\* Python truth value of the values the drivers test
Truthy(x) ==
    CASE IsNumber(x) -> Num(x) # 0
      [] x.t \in {"str", "list"} -> Len(x.v) > 0
      [] OTHER -> FALSE

----------------------------------------------------------------------------
(* Strings                                                                 *)

DigitChars == <<"0", "1", "2", "3", "4", "5", "6", "7", "8", "9">>

IsDigit(c) == \E i \in 1..10 : DigitChars[i] = c

DigitValue(c) == (CHOOSE i \in 1..10 : DigitChars[i] = c) - 1

RECURSIVE Dec(_)
\* the decimal digits of a natural number
Dec(n) == IF n < 10 THEN <<DigitChars[n + 1]>>
          ELSE Dec(n \div 10) \o <<DigitChars[(n % 10) + 1]>>

RECURSIVE Zeros(_)
Zeros(k) == IF k <= 0 THEN <<>> ELSE <<"0">> \o Zeros(k - 1)

\* '%0<w>d' % n; w = 0 is plain '%d'
FormatD(n, w) ==
    LET sign == IF n < 0 THEN <<"-">> ELSE <<>>
        body == Dec(IF n < 0 THEN -n ELSE n)
    IN  sign \o Zeros(w - Len(sign) - Len(body)) \o body

\* '%s' % x, that is str(x), of the values the drivers format
FormatS(x) ==
    CASE x.t = "str" -> x.v
      [] x.t = "int" -> FormatD(x.v, 0)
      [] x.t = "float" -> FormatD(x.v, 0) \o <<".", "0">>
      [] x.t = "floatlit" -> x.lit
      [] x.t = "bool" -> IF x.v THEN <<"T", "r", "u", "e">>
                         ELSE <<"F", "a", "l", "s", "e">>
      [] OTHER -> <<"N", "o", "n", "e">>

StartsWith(s, p) == Len(s) >= Len(p) /\ SubSeq(s, 1, Len(p)) = p

\* s[k:]
From(s, k) == SubSeq(s, k + 1, Len(s))

\* the index of the first c in s, 0 when there is none
Find(s, c) ==
    IF \E i \in 1..Len(s) : s[i] = c
    THEN CHOOSE i \in 1..Len(s) : s[i] = c /\ \A j \in 1..(i - 1) : s[j] # c
    ELSE 0

\* s.replace(a, b) for single characters a and b
Replace(s, a, b) == [i \in 1..Len(s) |-> IF s[i] = a THEN b ELSE s[i]]

RECURSIVE Remove(_, _)
\* s.replace(c, '')
Remove(s, c) ==
    IF s = <<>> THEN <<>>
    ELSE IF Head(s) = c THEN Remove(Tail(s), c)
    ELSE <<Head(s)>> \o Remove(Tail(s), c)

IsSpace(c) == c \in {" ", "\t", "\n", "\r"}

RECURSIVE LStrip(_)
LStrip(s) == IF s # <<>> /\ IsSpace(Head(s)) THEN LStrip(Tail(s)) ELSE s

RECURSIVE RStrip(_)
RStrip(s) == IF s # <<>> /\ IsSpace(s[Len(s)])
             THEN RStrip(SubSeq(s, 1, Len(s) - 1)) ELSE s

\* s.strip()
Strip(s) == RStrip(LStrip(s))

RECURSIVE Split(_, _)
\* s.split(c): the fields between the separators, at least one field
Split(s, c) ==
    LET i == Find(s, c)
    IN  IF i = 0 THEN <<s>>
        ELSE <<SubSeq(s, 1, i - 1)>> \o Split(From(s, i), c)

\* whether t occurs in s as a substring
Contains(s, t) ==
    \E i \in 0..(Len(s) - Len(t)) : SubSeq(s, i + 1, i + Len(t)) = t

RECURSIVE DigitsValue(_)
DigitsValue(s) == IF s = <<>> THEN 0
                  ELSE 10 * DigitsValue(SubSeq(s, 1, Len(s) - 1))
                       + DigitValue(s[Len(s)])

AllDigits(s) == s # <<>> /\ \A i \in 1..Len(s) : IsDigit(s[i])

\* the text is an integer literal: optional sign, then digits
IsIntLiteral(s) ==
    LET u == Strip(s)
    IN  u # <<>> /\ AllDigits(IF u[1] \in {"-", "+"} THEN Tail(u) ELSE u)

IntLiteralValue(s) ==
    LET u == Strip(s)
    IN  IF u[1] = "-" THEN -DigitsValue(Tail(u))
        ELSE IF u[1] = "+" THEN DigitsValue(Tail(u))
        ELSE DigitsValue(u)

\* the text is a decimal literal with a point: optional sign, digits around '.'
IsPointLiteral(s) ==
    LET u == Strip(s)
        b == IF u # <<>> /\ u[1] \in {"-", "+"} THEN Tail(u) ELSE u
        i == Find(b, ".")
    IN  /\ i > 0
        /\ Len(b) > 1
        /\ \A k \in 1..Len(b) : k # i => IsDigit(b[k])

\* the text is a literal in exponent notation: mantissa, 'e' or 'E', exponent
IsExpLiteral(s) ==
    LET u == Strip(s)
    IN  /\ \A j \in 1..Len(u) : ~IsSpace(u[j])
        /\ \E k \in 2..(Len(u) - 1) :
              /\ u[k] \in {"e", "E"}
              /\ \/ IsIntLiteral(SubSeq(u, 1, k - 1))
                 \/ IsPointLiteral(SubSeq(u, 1, k - 1))
              /\ IsIntLiteral(From(u, k))

----------------------------------------------------------------------------
(* Python operations the accessor transforms use                           *)

\* v[k:]
PySlice(v, k) ==
    CASE v.t = "str" -> Return(PyStr(From(v.v, k)))
      [] v.t = "list" -> Return(PyList(From(v.v, k)))
      [] OTHER -> Raise("TypeError", <<"not subscriptable">>)

\* v[i]
PyIndex(v, i) ==
    CASE v.t = "str" ->
            IF i < Len(v.v) THEN Return(PyStr(<<v.v[i + 1]>>))
            ELSE Raise("IndexError", <<"string index out of range">>)
      [] v.t = "list" ->
            IF i < Len(v.v) THEN Return(v.v[i + 1])
            ELSE Raise("IndexError", <<"list index out of range">>)
      [] OTHER -> Raise("TypeError", <<"not subscriptable">>)

\* int(x)
PyIntOf(x) ==
    CASE x.t = "str" ->
            IF IsIntLiteral(x.v) THEN Return(PyInt(IntLiteralValue(x.v)))
            ELSE Raise("ValueError", <<"invalid literal for int()">>)
      [] IsNumber(x) -> Return(PyInt(Num(x)))
      [] x.t = "floatlit" ->
            LET whole == SubSeq(x.lit, 1, Find(x.lit, ".") - 1)
            IN  Return(PyInt(IF whole \in {<<>>, <<"-">>, <<"+">>} THEN 0
                             ELSE IntLiteralValue(whole)))
      [] OTHER -> Raise("TypeError", <<"int() argument">>)

\* float(s) of a literal with a point: an integral float when the fraction is
\* zero, else the float kept as its literal (fractions come without padding)
PointValue(s) ==
    LET u == Strip(s)
        i == Find(u, ".")
        whole == SubSeq(u, 1, i - 1)
        frac == From(u, i)
    IN  IF \A k \in 1..Len(frac) : frac[k] = "0"
        THEN PyFloat(IF whole \in {<<>>, <<"-">>, <<"+">>} THEN 0
                     ELSE IntLiteralValue(whole))
        ELSE [t |-> "floatlit", lit |-> u]

\* float(x); a float in exponent notation is kept as its literal
PyFloatOf(x) ==
    CASE x.t = "str" ->
            IF IsIntLiteral(x.v) THEN Return(PyFloat(IntLiteralValue(x.v)))
            ELSE IF IsPointLiteral(x.v) THEN Return(PointValue(x.v))
            ELSE IF IsExpLiteral(x.v)
            THEN Return([t |-> "floatexp", lit |-> Strip(x.v)])
            ELSE Raise("ValueError", <<"could not convert string to float">>)
      [] IsNumber(x) -> Return(PyFloat(Num(x)))
      [] OTHER -> Raise("TypeError", <<"float() argument">>)

\* float(str(v[i]) + str(v[j]))
FloatJoin(v, i, j) ==
    LET a == PyIndex(v, i)
        b == PyIndex(v, j)
    IN  IF a.kind = "raise" THEN a
        ELSE IF b.kind = "raise" THEN b
        ELSE PyFloatOf(PyStr(FormatS(a.value) \o FormatS(b.value)))

\* a list display [e1, e2, ...]: the first element that raises ends it
ListOf(parts) ==
    LET raising == {k \in 1..Len(parts) : parts[k].kind = "raise"}
    IN  IF raising = {}
        THEN Return(PyList([k \in 1..Len(parts) |-> parts[k].value]))
        ELSE parts[CHOOSE k \in raising : \A j \in raising : k <= j]

\* f(g(v)) where g may raise
Then(r, f(_)) == IF r.kind = "raise" THEN r ELSE f(r.value)

\* int(v[k:])
IntFrom(v, k) == Then(PySlice(v, k), PyIntOf)

----------------------------------------------------------------------------
(* Transport events                                                        *)

W(cmd) == [e |-> "w", s |-> cmd]
\* a read of the reply line, with what the driver's read() made of it
R(reply, out) == [e |-> "r", s |-> reply, out |-> out]

Reads(events) == SelectSeq(events, LAMBDA x : x.e = "r")

\* the reply lines left unread by the events: the dosemeters answer every
\* command they are written with one line, and a read takes one line
Unread(events) == Len(events) - 2 * Len(Reads(events))

----------------------------------------------------------------------------
(* ptwDIAMENTOR: reply validation                                          *)

\* the table keyed by zero-padded codes, as the other driver's is
ptwDIAMENTOR_errors_padded ==
    (<<"E", "0", "1">> :> "Syntax error, unknown command") @@
    (<<"E", "0", "4">> :> "Charge overflow") @@
    (<<"E", "0", "5">> :> "Max. input current exceeded.") @@
    (<<"E", "0", "6">> :> "Chamber voltage is out of range.") @@
    (<<"E", "0", "7">> :> "Parameter is write protected.") @@
    (<<"E", "0", "9">> :> "Parameter is out of range.") @@
    (<<"E", "2", "3">> :> "EEPROM reading/writing error") @@
    (<<"E", "2", "4">> :> "DIAMENTOR is not calibrated electrically.") @@
    (<<"E", "2", "5">> :> "Input-Buffer-Overrun") @@
    (<<"E", "2", "6">> :> "Firmware malfunction")

ptwDIAMENTOR_errors ==
    (<<"E", "1">> :> "Syntax error, unknown command") @@
    (<<"E", "4">> :> "Charge overflow") @@
    (<<"E", "5">> :> "Max. input current exceeded.") @@
    (<<"E", "6">> :> "Chamber voltage is out of range.") @@
    (<<"E", "7">> :> "Parameter is write protected.") @@
    (<<"E", "9">> :> "Parameter is out of range.") @@
    (<<"E", "2", "3">> :> "EEPROM reading/writing error") @@
    (<<"E", "2", "4">> :> "DIAMENTOR is not calibrated electrically.") @@
    (<<"E", "2", "5">> :> "Input-Buffer-Overrun") @@
    (<<"E", "2", "6">> :> "Firmware malfunction")

\* the message of an exception is kept as the parts the f-string joins
ptwDIAMENTOR_read(got) ==
    IF StartsWith(got, <<"E">>)
    THEN IF got \in DOMAIN ptwDIAMENTOR_errors
         THEN Raise("ValueError", <<got, ", ", ptwDIAMENTOR_errors[got]>>)
         ELSE Raise("ConnectionError", <<"Unknown read error. Received: ", got>>)
    ELSE Return(PyStr(got))

ptwDIAMENTOR_check_set_errors(got) ==
    LET r == ptwDIAMENTOR_read(got)
    IN  IF r.kind = "raise" THEN r ELSE Return(PyList(<<>>))

----------------------------------------------------------------------------
(* ptwUNIDOS: reply validation                                             *)

ptwUNIDOS_errors ==
    (<<"E", "0", "1">> :> "Syntax error, unknown command") @@
    (<<"E", "0", "2">> :> "Command not allowed in this context") @@
    (<<"E", "0", "3">> :> "Command not allowed at this moment") @@
    (<<"E", "0", "8">> :> "Parameter error: value invalid/out of range or wrong format of the parameter") @@
    (<<"E", "1", "2">> :> "Abort by user") @@
    (<<"E", "1", "6">> :> "Command to long") @@
    (<<"E", "1", "7">> :> "Maximum number of parameters exceeded") @@
    (<<"E", "1", "8">> :> "Empty parameter field") @@
    (<<"E", "1", "9">> :> "Wrong number of parameters") @@
    (<<"E", "2", "0">> :> "No user rights, no write permission") @@
    (<<"E", "2", "1">> :> "Required parameter not found (eg. detector)") @@
    (<<"E", "2", "4">> :> "Memory error: data could not be stored") @@
    (<<"E", "2", "8">> :> "Unknown parameter") @@
    (<<"E", "2", "9">> :> "Wrong parameter type") @@
    (<<"E", "3", "3">> :> "Measurement module defect") @@
    (<<"E", "5", "1">> :> "Undefined command") @@
    (<<"E", "5", "2">> :> "Wrong parameter type of the HTTP response") @@
    (<<"E", "5", "4">> :> "HTTP request denied") @@
    (<<"E", "5", "8">> :> "Wrong valueof the HTTP response") @@
    (<<"E", "9", "6">> :> "Timeout")

\* got.rpartition(';'): the split at the last ';'
PartitionLast(got) ==
    LET at == {i \in 1..Len(got) : got[i] = ";"}
        i == CHOOSE k \in at : \A j \in at : j <= k
    IN  IF at = {} THEN <<got, <<>>, <<>>>>
        ELSE <<SubSeq(got, 1, i - 1), <<";">>, From(got, i)>>

\* got.partition(';'): <<command, sep, response>>
Partition(got) ==
    LET i == Find(got, ";")
    IN  IF i = 0 THEN <<got, <<>>, <<>>>>
        ELSE <<SubSeq(got, 1, i - 1), <<";">>, From(got, i)>>

\* read that hands an error reply of unknown code back as a value
ptwUNIDOS_read_unknown_returned(got) ==
    LET error_code == Strip(Remove(got, ";"))
    IN  IF StartsWith(got, <<"E">>) /\ error_code \in DOMAIN ptwUNIDOS_errors
        THEN Raise("ValueError",
                   <<error_code, ", ", ptwUNIDOS_errors[error_code]>>)
        ELSE Return(PyStr(Replace(Partition(got)[3], ";", ",")))

\* read that looks the reply up as it came, as the other driver does
ptwUNIDOS_read_unmodified(got) ==
    IF StartsWith(got, <<"E">>)
    THEN IF got \in DOMAIN ptwUNIDOS_errors
         THEN Raise("ValueError", <<got, ", ", ptwUNIDOS_errors[got]>>)
         ELSE Raise("ConnectionError",
                    <<"Unknown read error. Received: ", got>>)
    ELSE Return(PyStr(Replace(Partition(got)[3], ";", ",")))

ptwUNIDOS_read(got) ==
    IF StartsWith(got, <<"E">>)
    THEN LET error_code == Strip(Remove(got, ";"))
         IN  IF error_code \in DOMAIN ptwUNIDOS_errors
             THEN Raise("ValueError",
                        <<error_code, ", ", ptwUNIDOS_errors[error_code]>>)
             ELSE Raise("ConnectionError",
                        <<"Unknown read error. Received: ", got>>)
    ELSE Return(PyStr(Replace(Partition(got)[3], ";", ",")))

\* check_set_errors that logs the exception and does not raise it again
ptwUNIDOS_check_set_errors_swallowed(got) == Return(PyList(<<>>))

ptwUNIDOS_check_set_errors(got) ==
    LET r == ptwUNIDOS_read(got)
    IN  IF r.kind = "raise" THEN r ELSE Return(PyList(<<>>))

----------------------------------------------------------------------------
(* Accessor declarations: Instrument.control / Instrument.measurement      *)
(* set_command 'TMPA%02d' is kept as its text, its conversion and width    *)

\* Instrument.measurement(get_command, docs) with every default
Measurement(get_command) ==
    [get_command |-> get_command,
     settable |-> FALSE,
     set_command |-> <<>>, conv |-> "s", width |-> 0,
     validator |-> "none", lo |-> 0, hi |-> 0,
     values |-> <<>>,
     mapping |-> <<>>,
     map_values |-> FALSE,
     cast |-> "float", check_set_errors |-> FALSE]

\* the pressure control declared without check_set_errors
ptwDIAMENTOR_pressure_unchecked ==
    [get_command |-> <<"P", "R", "E">>,
     settable |-> TRUE,
     set_command |-> <<"P", "R", "E">>, conv |-> "d", width |-> 4,
     validator |-> "truncated_range", lo |-> 500, hi |-> 1500,
     values |-> <<>>,
     mapping |-> <<>>,
     map_values |-> FALSE,
     cast |-> "float", check_set_errors |-> FALSE]

ptwDIAMENTOR_pressure ==
    [get_command |-> <<"P", "R", "E">>,
     settable |-> TRUE,
     set_command |-> <<"P", "R", "E">>, conv |-> "d", width |-> 4,
     validator |-> "truncated_range", lo |-> 500, hi |-> 1500,
     values |-> <<>>,
     mapping |-> <<>>,
     map_values |-> FALSE,
     cast |-> "float", check_set_errors |-> TRUE]

\* Instrument.measurement("CRC", ..., values=[True: '0', False: '1'],
\* get_process=lambda v: v[1]) ): not an expression of the language; the
\* declaration is refused when the class body is compiled, before any
\* property exists
ptwDIAMENTOR_is_calibrated ==
    [io |-> <<>>, result |-> Raise("SyntaxError", <<"unmatched ')'">>)]

\* the same with get_process=lambda v: v[0][3:]) )
ptwDIAMENTOR_is_eeprom_ok ==
    [io |-> <<>>, result |-> Raise("SyntaxError", <<"unmatched ')'">>)]

ptwDIAMENTOR_id ==
    [get_command |-> <<"P", "T", "W">>,
     settable |-> FALSE,
     set_command |-> <<>>, conv |-> "s", width |-> 0,
     validator |-> "none", lo |-> 0, hi |-> 0,
     values |-> <<>>,
     mapping |-> <<>>,
     map_values |-> FALSE,
     cast |-> "float", check_set_errors |-> FALSE]

ptwDIAMENTOR_meas_result == Measurement(<<"M">>)

ptwDIAMENTOR_serial_number ==
    [get_command |-> <<"S", "E", "R">>,
     settable |-> FALSE,
     set_command |-> <<>>, conv |-> "s", width |-> 0,
     validator |-> "none", lo |-> 0, hi |-> 0,
     values |-> <<>>,
     mapping |-> <<>>,
     map_values |-> FALSE,
     cast |-> "float", check_set_errors |-> FALSE]

\* the temperature control with the set command 'TMPA%d'
ptwDIAMENTOR_temperature_unpadded ==
    [get_command |-> <<"T", "M", "P", "A">>,
     settable |-> TRUE,
     set_command |-> <<"T", "M", "P", "A">>, conv |-> "d", width |-> 0,
     validator |-> "truncated_range", lo |-> 0, hi |-> 70,
     values |-> <<>>,
     mapping |-> <<>>,
     map_values |-> FALSE,
     cast |-> "float", check_set_errors |-> TRUE]

ptwDIAMENTOR_temperature ==
    [get_command |-> <<"T", "M", "P", "A">>,
     settable |-> TRUE,
     set_command |-> <<"T", "M", "P", "A">>, conv |-> "d", width |-> 2,
     validator |-> "truncated_range", lo |-> 0, hi |-> 70,
     values |-> <<>>,
     mapping |-> <<>>,
     map_values |-> FALSE,
     cast |-> "float", check_set_errors |-> TRUE]

ptwDIAMENTOR_dap_unit ==
    [get_command |-> <<"U">>,
     settable |-> TRUE,
     set_command |-> <<"U">>, conv |-> "d", width |-> 0,
     validator |-> "truncated_range", lo |-> 1, hi |-> 4,
     values |-> <<>>,
     mapping |-> <<>>,
     map_values |-> FALSE,
     cast |-> "float", check_set_errors |-> TRUE]

ptwUNIDOS_autostart_level ==
    [get_command |-> <<"A", "S", "L">>,
     settable |-> TRUE,
     set_command |-> <<"A", "S", "L", ";">>, conv |-> "s", width |-> 0,
     validator |-> "strict_discrete_set", lo |-> 0, hi |-> 0,
     values |-> <<PyStr(<<"L", "O", "W">>), PyStr(<<"M", "E", "D", "I", "U", "M">>), PyStr(<<"H", "I", "G", "H">>)>>,
     mapping |-> <<>>,
     map_values |-> FALSE,
     cast |-> "float", check_set_errors |-> TRUE]

ptwUNIDOS_id ==
    [get_command |-> <<"P", "T", "W">>,
     settable |-> FALSE,
     set_command |-> <<>>, conv |-> "s", width |-> 0,
     validator |-> "none", lo |-> 0, hi |-> 0,
     values |-> <<>>,
     mapping |-> <<>>,
     map_values |-> FALSE,
     cast |-> "float", check_set_errors |-> FALSE]

ptwUNIDOS_integration_time ==
    [get_command |-> <<"I", "T">>,
     settable |-> TRUE,
     set_command |-> <<"I", "T", ";">>, conv |-> "s", width |-> 0,
     validator |-> "truncated_range", lo |-> 1, hi |-> 3599999,
     values |-> <<>>,
     mapping |-> <<>>,
     map_values |-> FALSE,
     cast |-> "int", check_set_errors |-> TRUE]

ptwUNIDOS_mac_address ==
    [get_command |-> <<"M", "A", "C">>,
     settable |-> FALSE,
     set_command |-> <<>>, conv |-> "s", width |-> 0,
     validator |-> "none", lo |-> 0, hi |-> 0,
     values |-> <<>>,
     mapping |-> <<>>,
     map_values |-> FALSE,
     cast |-> "float", check_set_errors |-> FALSE]

ptwUNIDOS_meas_result == Measurement(<<"M", "V">>)

\* the range control declared without its validator
ptwUNIDOS_range_unvalidated ==
    [get_command |-> <<"R", "G", "E">>,
     settable |-> TRUE,
     set_command |-> <<"R", "G", "E", ";">>, conv |-> "s", width |-> 0,
     validator |-> "none", lo |-> 0, hi |-> 0,
     values |-> <<PyStr(<<"V", "E", "R", "Y", "_", "L", "O", "W">>), PyStr(<<"L", "O", "W">>), PyStr(<<"M", "E", "D", "I", "U", "M">>), PyStr(<<"H", "I", "G", "H">>)>>,
     mapping |-> <<>>,
     map_values |-> FALSE,
     cast |-> "float", check_set_errors |-> TRUE]

ptwUNIDOS_range ==
    [get_command |-> <<"R", "G", "E">>,
     settable |-> TRUE,
     set_command |-> <<"R", "G", "E", ";">>, conv |-> "s", width |-> 0,
     validator |-> "strict_discrete_set", lo |-> 0, hi |-> 0,
     values |-> <<PyStr(<<"V", "E", "R", "Y", "_", "L", "O", "W">>), PyStr(<<"L", "O", "W">>), PyStr(<<"M", "E", "D", "I", "U", "M">>), PyStr(<<"H", "I", "G", "H">>)>>,
     mapping |-> <<>>,
     map_values |-> FALSE,
     cast |-> "float", check_set_errors |-> TRUE]

ptwUNIDOS_range_max == Measurement(<<"M", "V", "M">>)

ptwUNIDOS_range_res == Measurement(<<"M", "V", "R">>)

ptwUNIDOS_selftest_result == Measurement(<<"A", "S", "S">>)

ptwUNIDOS_serial_number ==
    [get_command |-> <<"S", "E", "R">>,
     settable |-> FALSE,
     set_command |-> <<>>, conv |-> "s", width |-> 0,
     validator |-> "none", lo |-> 0, hi |-> 0,
     values |-> <<>>,
     mapping |-> <<>>,
     map_values |-> FALSE,
     cast |-> "int", check_set_errors |-> FALSE]

ptwUNIDOS_status ==
    [get_command |-> <<"S">>,
     settable |-> FALSE,
     set_command |-> <<>>, conv |-> "s", width |-> 0,
     validator |-> "none", lo |-> 0, hi |-> 0,
     values |-> <<>>,
     mapping |-> <<>>,
     map_values |-> FALSE,
     cast |-> "float", check_set_errors |-> FALSE]

ptwUNIDOS_tfi ==
    [get_command |-> <<"T", "F", "I">>,
     settable |-> FALSE,
     set_command |-> <<>>, conv |-> "s", width |-> 0,
     validator |-> "none", lo |-> 0, hi |-> 0,
     values |-> <<>>,
     mapping |-> <<>>,
     map_values |-> FALSE,
     cast |-> "float", check_set_errors |-> FALSE]

ptwUNIDOS_use_autostart ==
    [get_command |-> <<"A", "S", "E">>,
     settable |-> TRUE,
     set_command |-> <<"A", "S", "E", ";">>, conv |-> "s", width |-> 0,
     validator |-> "strict_discrete_set", lo |-> 0, hi |-> 0,
     values |-> <<>>,
     mapping |-> <<<<PyBool(TRUE), PyStr(<<"t", "r", "u", "e">>)>>, <<PyBool(FALSE), PyStr(<<"f", "a", "l", "s", "e">>)>>>>,
     map_values |-> TRUE,
     cast |-> "float", check_set_errors |-> TRUE]

ptwUNIDOS_use_autoreset ==
    [get_command |-> <<"A", "S", "R">>,
     settable |-> TRUE,
     set_command |-> <<"A", "S", "R", ";">>, conv |-> "s", width |-> 0,
     validator |-> "strict_discrete_set", lo |-> 0, hi |-> 0,
     values |-> <<>>,
     mapping |-> <<<<PyBool(TRUE), PyStr(<<"t", "r", "u", "e">>)>>, <<PyBool(FALSE), PyStr(<<"f", "a", "l", "s", "e">>)>>>>,
     map_values |-> TRUE,
     cast |-> "float", check_set_errors |-> TRUE]

ptwUNIDOS_use_electrical_units ==
    [get_command |-> <<"U", "E", "L">>,
     settable |-> TRUE,
     set_command |-> <<"U", "E", "L", ";">>, conv |-> "s", width |-> 0,
     validator |-> "strict_discrete_set", lo |-> 0, hi |-> 0,
     values |-> <<>>,
     mapping |-> <<<<PyBool(TRUE), PyStr(<<"t", "r", "u", "e">>)>>, <<PyBool(FALSE), PyStr(<<"f", "a", "l", "s", "e">>)>>>>,
     map_values |-> TRUE,
     cast |-> "float", check_set_errors |-> TRUE]

ptwUNIDOS_voltage ==
    [get_command |-> <<"H", "V">>,
     settable |-> TRUE,
     set_command |-> <<"H", "V", ";">>, conv |-> "d", width |-> 0,
     validator |-> "truncated_range", lo |-> -400, hi |-> 400,
     values |-> <<>>,
     mapping |-> <<>>,
     map_values |-> FALSE,
     cast |-> "float", check_set_errors |-> TRUE]

ptwUNIDOS_write_enabled ==
    [get_command |-> <<"T", "O", "K", ";", "1">>,
     settable |-> TRUE,
     set_command |-> <<"T", "O", "K">>, conv |-> "s", width |-> 0,
     validator |-> "strict_discrete_set", lo |-> 0, hi |-> 0,
     values |-> <<PyBool(TRUE), PyBool(FALSE)>>,
     mapping |-> <<>>,
     map_values |-> FALSE,
     cast |-> "float", check_set_errors |-> TRUE]

ptwUNIDOS_zero_result ==
    [get_command |-> <<"N", "U", "S">>,
     settable |-> FALSE,
     set_command |-> <<>>, conv |-> "s", width |-> 0,
     validator |-> "none", lo |-> 0, hi |-> 0,
     values |-> <<>>,
     mapping |-> <<>>,
     map_values |-> FALSE,
     cast |-> "float", check_set_errors |-> FALSE]

Drivers == {"ptwDIAMENTOR", "ptwUNIDOS", "ParkerGV6"}

Properties(d) ==
    CASE d = "ptwDIAMENTOR" ->
            {"pressure", "id", "meas_result", "serial_number", "temperature",
             "dap_unit"}
      [] d = "ptwUNIDOS" ->
            {"autostart_level", "id", "integration_time", "mac_address",
             "meas_result", "range", "range_max", "range_res",
             "selftest_result", "serial_number", "status", "tfi", "use_autostart",
             "use_autoreset", "use_electrical_units", "voltage",
             "write_enabled", "zero_result"}
      [] OTHER -> {}

Accessor(d, name) ==
    CASE d = "ptwDIAMENTOR" /\ name = "pressure" -> ptwDIAMENTOR_pressure
      [] d = "ptwDIAMENTOR" /\ name = "id" -> ptwDIAMENTOR_id
      [] d = "ptwDIAMENTOR" /\ name = "meas_result" -> ptwDIAMENTOR_meas_result
      [] d = "ptwDIAMENTOR" /\ name = "serial_number" -> ptwDIAMENTOR_serial_number
      [] d = "ptwDIAMENTOR" /\ name = "temperature" -> ptwDIAMENTOR_temperature
      [] d = "ptwDIAMENTOR" /\ name = "dap_unit" -> ptwDIAMENTOR_dap_unit
      [] d = "ptwUNIDOS" /\ name = "autostart_level" -> ptwUNIDOS_autostart_level
      [] d = "ptwUNIDOS" /\ name = "id" -> ptwUNIDOS_id
      [] d = "ptwUNIDOS" /\ name = "integration_time" -> ptwUNIDOS_integration_time
      [] d = "ptwUNIDOS" /\ name = "mac_address" -> ptwUNIDOS_mac_address
      [] d = "ptwUNIDOS" /\ name = "meas_result" -> ptwUNIDOS_meas_result
      [] d = "ptwUNIDOS" /\ name = "range" -> ptwUNIDOS_range
      [] d = "ptwUNIDOS" /\ name = "range_max" -> ptwUNIDOS_range_max
      [] d = "ptwUNIDOS" /\ name = "range_res" -> ptwUNIDOS_range_res
      [] d = "ptwUNIDOS" /\ name = "selftest_result" ->
            ptwUNIDOS_selftest_result
      [] d = "ptwUNIDOS" /\ name = "serial_number" -> ptwUNIDOS_serial_number
      [] d = "ptwUNIDOS" /\ name = "status" -> ptwUNIDOS_status
      [] d = "ptwUNIDOS" /\ name = "tfi" -> ptwUNIDOS_tfi
      [] d = "ptwUNIDOS" /\ name = "use_autostart" -> ptwUNIDOS_use_autostart
      [] d = "ptwUNIDOS" /\ name = "use_autoreset" -> ptwUNIDOS_use_autoreset
      [] d = "ptwUNIDOS" /\ name = "use_electrical_units" ->
            ptwUNIDOS_use_electrical_units
      [] d = "ptwUNIDOS" /\ name = "voltage" -> ptwUNIDOS_voltage
      [] d = "ptwUNIDOS" /\ name = "write_enabled" -> ptwUNIDOS_write_enabled
      [] d = "ptwUNIDOS" /\ name = "zero_result" -> ptwUNIDOS_zero_result

Controls(d) == {n \in Properties(d) : Accessor(d, n).settable}

----------------------------------------------------------------------------
(* Accessor transforms: the get_process and set_process lambdas            *)

ptwDIAMENTOR_pressure_get_process(v) == IntFrom(v, 3)

\* {'dap': v[0][1:], 'dap_rate': v[1], 'time': 60*int(v[2]) + int(v[3]),
\*  'crc': v[8]}; the values are evaluated in this order
ptwDIAMENTOR_meas_result_get_process(v) ==
    LET minutes == Then(PyIndex(v, 2), PyIntOf)
        seconds == Then(PyIndex(v, 3), PyIntOf)
        time == IF minutes.kind = "raise" THEN minutes
                ELSE IF seconds.kind = "raise" THEN seconds
                ELSE Return(PyInt(60 * minutes.value.v + seconds.value.v))
        parts == ListOf(<<Then(PyIndex(v, 0), LAMBDA x : PySlice(x, 1)),
                          PyIndex(v, 1), time, PyIndex(v, 8)>>)
    IN  IF parts.kind = "raise" THEN parts
        ELSE Return([t |-> "dict",
                     v |-> [dap |-> parts.value.v[1],
                            dap_rate |-> parts.value.v[2],
                            time |-> parts.value.v[3],
                            crc |-> parts.value.v[4]]])

ptwDIAMENTOR_serial_number_get_process(v) == IntFrom(v, 3)

\* the offset of the three-letter mnemonics used for the four-letter one
ptwDIAMENTOR_temperature_get_process_offset3(v) == IntFrom(v, 3)

ptwDIAMENTOR_temperature_get_process(v) == IntFrom(v, 4)

ptwDIAMENTOR_dap_unit_get_process(v) == IntFrom(v, 1)

\* [v[0], float(str(v[1]) + str(v[2])), float(str(v[5]) + str(v[6])),
\*  v[9], v[10], v[12], v[14]]: status, value, rate, timebase, time, voltage
\* and flags
ptwUNIDOS_meas_result_get_process(v) ==
    ListOf(<<PyIndex(v, 0), FloatJoin(v, 1, 2), FloatJoin(v, 5, 6),
             PyIndex(v, 9), PyIndex(v, 10), PyIndex(v, 12), PyIndex(v, 14)>>)

\* [v[0], float(str(v[1]) + str(v[2])), v[5]]: range, value, timebase
ptwUNIDOS_range_max_get_process(v) ==
    ListOf(<<PyIndex(v, 0), FloatJoin(v, 1, 2), PyIndex(v, 5)>>)

\* [v[0], float(str(v[1]) + str(v[2])), float(str(v[5]) + str(v[6])), v[9]]
ptwUNIDOS_range_res_get_process(v) ==
    ListOf(<<PyIndex(v, 0), FloatJoin(v, 1, 2), FloatJoin(v, 5, 6),
             PyIndex(v, 9)>>)

\* [v[0], v[1], v[2], float(str(v[4]) + str(v[5])),
\*  float(str(v[9]) + str(v[10])), float(str(v[14]) + str(v[15]))]
ptwUNIDOS_selftest_result_get_process(v) ==
    ListOf(<<PyIndex(v, 0), PyIndex(v, 1), PyIndex(v, 2), FloatJoin(v, 4, 5),
             FloatJoin(v, 9, 10), FloatJoin(v, 14, 15)>>)

\* f";{int(v)}" for every value
ptwUNIDOS_write_enabled_set_process_always_int(v) ==
    PyStr(<<";">> \o FormatD(Num(v), 0))

\* '' if v else f";{int(v)}"
ptwUNIDOS_write_enabled_set_process(v) ==
    IF Truthy(v) THEN PyStr(<<>>) ELSE PyStr(<<";">> \o FormatD(Num(v), 0))

\* True if v[1] == 'true' else False
ptwUNIDOS_write_enabled_get_process(v) ==
    LET second == PyIndex(v, 1)
    IN  IF second.kind = "raise" THEN second
        ELSE Return(PyBool(PyEq(second.value, PyStr(<<"t", "r", "u", "e">>))))

get_process(d, name, v) ==
    CASE d = "ptwDIAMENTOR" /\ name = "pressure" ->
            ptwDIAMENTOR_pressure_get_process(v)
      [] d = "ptwDIAMENTOR" /\ name = "meas_result" ->
            ptwDIAMENTOR_meas_result_get_process(v)
      [] d = "ptwDIAMENTOR" /\ name = "serial_number" ->
            ptwDIAMENTOR_serial_number_get_process(v)
      [] d = "ptwDIAMENTOR" /\ name = "temperature" ->
            ptwDIAMENTOR_temperature_get_process(v)
      [] d = "ptwDIAMENTOR" /\ name = "dap_unit" ->
            ptwDIAMENTOR_dap_unit_get_process(v)
      [] d = "ptwUNIDOS" /\ name = "meas_result" ->
            ptwUNIDOS_meas_result_get_process(v)
      [] d = "ptwUNIDOS" /\ name = "range_max" ->
            ptwUNIDOS_range_max_get_process(v)
      [] d = "ptwUNIDOS" /\ name = "range_res" ->
            ptwUNIDOS_range_res_get_process(v)
      [] d = "ptwUNIDOS" /\ name = "selftest_result" ->
            ptwUNIDOS_selftest_result_get_process(v)
      [] d = "ptwUNIDOS" /\ name = "write_enabled" ->
            ptwUNIDOS_write_enabled_get_process(v)
      [] OTHER -> Return(v)

set_process(d, name, v) ==
    CASE d = "ptwUNIDOS" /\ name = "write_enabled" ->
            ptwUNIDOS_write_enabled_set_process(v)
      [] OTHER -> v

----------------------------------------------------------------------------
(* The property mechanism the drivers are declared with                    *)

\* value in values, by Python ==
PyIn(value, values) == \E i \in 1..Len(values) : PyEq(values[i], value)

\* the keys of a dict of mapped values
Keys(mapping) == [i \in 1..Len(mapping) |-> mapping[i][1]]

strict_discrete_set(value, values) ==
    IF PyIn(value, values) THEN Return(value)
    ELSE Raise("ValueError", <<"Value is not in the discrete set">>)

truncated_range(value, lo, hi) ==
    IF lo <= Num(value) /\ Num(value) <= hi THEN Return(value)
    ELSE IF Num(value) > hi THEN Return(PyInt(hi))
    ELSE Return(PyInt(lo))

\* validator(value, values) of the accessor
Validate(acc, value) ==
    CASE acc.validator = "strict_discrete_set" ->
            strict_discrete_set(value, IF acc.mapping # <<>>
                                       THEN Keys(acc.mapping) ELSE acc.values)
      [] acc.validator = "truncated_range" ->
            truncated_range(value, acc.lo, acc.hi)
      [] OTHER -> Return(value)

\* values[value] of a dict of mapped values: the first key equal to value
MapSet(acc, value) ==
    IF ~acc.map_values THEN Return(value)
    ELSE IF PyIn(value, Keys(acc.mapping))
    THEN Return(acc.mapping[CHOOSE i \in 1..Len(acc.mapping) :
                     /\ PyEq(acc.mapping[i][1], value)
                     /\ \A j \in 1..(i - 1) : ~PyEq(acc.mapping[j][1], value)][2])
    ELSE Raise("KeyError", <<"mapped value">>)

\* the key whose mapped value equals value
MapGet(acc, value) ==
    IF ~acc.map_values THEN Return(value)
    ELSE IF \E i \in 1..Len(acc.mapping) : PyEq(acc.mapping[i][2], value)
    THEN Return(acc.mapping[CHOOSE i \in 1..Len(acc.mapping) :
                     /\ PyEq(acc.mapping[i][2], value)
                     /\ \A j \in 1..(i - 1) : ~PyEq(acc.mapping[j][2], value)][1])
    ELSE Raise("KeyError", <<"Value not found in mapped values">>)

\* set_command % value
SetCommand(acc, value) ==
    acc.set_command \o (IF acc.conv = "d" THEN FormatD(Num(value), acc.width)
                        ELSE FormatS(value))

\* cast(field), the field kept as a string when the cast fails (no reply
\* carries a field in exponent notation)
Cast(cast, field) ==
    IF IsIntLiteral(field)
    THEN IF cast = "int" THEN PyInt(IntLiteralValue(field))
         ELSE PyFloat(IntLiteralValue(field))
    ELSE IF cast = "float" /\ IsPointLiteral(field) THEN PointValue(field)
    ELSE PyStr(field)

\* Instrument.values on the string that read() returned
Values(text, cast) ==
    LET fields == Split(Strip(text), ",")
    IN  [i \in 1..Len(fields) |-> Cast(cast, fields[i])]

read(d, got) ==
    IF d = "ptwDIAMENTOR" THEN ptwDIAMENTOR_read(got) ELSE ptwUNIDOS_read(got)

check_set_errors(d, got) ==
    IF d = "ptwDIAMENTOR" THEN ptwDIAMENTOR_check_set_errors(got)
    ELSE ptwUNIDOS_check_set_errors(got)

\* Instrument.ask: one write, then one read
ask(d, command, reply) ==
    [io |-> <<W(command), R(reply, read(d, reply))>>,
     result |-> read(d, reply)]

\* the getter of a control or measurement; reply is what the device answers
fget(d, name, reply) ==
    LET acc == Accessor(d, name)
        asked == ask(d, acc.get_command, reply)
        vals == Values(asked.result.value.v, acc.cast)
        one == get_process(d, name, vals[1])
    IN  [io |-> asked.io,
         result |->
            IF asked.result.kind = "raise" THEN asked.result
            ELSE IF Len(vals) = 1
            THEN (IF one.kind = "raise" THEN one ELSE MapGet(acc, one.value))
            ELSE get_process(d, name, PyList(vals))]

\* the setter of a control; reply is what the device answers, if it is read
fset(d, name, value, reply) ==
    LET acc == Accessor(d, name)
        valid == Validate(acc, value)
        mapped == MapSet(acc, set_process(d, name, valid.value))
        command == SetCommand(acc, mapped.value)
        checked == check_set_errors(d, reply)
    IN  IF valid.kind = "raise" THEN [io |-> <<>>, result |-> valid]
        ELSE IF mapped.kind = "raise" THEN [io |-> <<>>, result |-> mapped]
        ELSE IF ~acc.check_set_errors
        THEN [io |-> <<W(command)>>, result |-> Return(PyNone)]
        ELSE [io |-> <<W(command), R(reply, read(d, reply))>>,
              result |-> IF checked.kind = "raise" THEN checked
                         ELSE Return(PyNone)]

----------------------------------------------------------------------------
(* Command methods: self.ask(<mnemonic>)                                   *)

Methods(d) ==
    CASE d = "ptwDIAMENTOR" -> {"reset", "selftest"}
      [] d = "ptwUNIDOS" -> {"clear", "hold", "intervall", "measure", "reset",
                             "selftest", "zero"}
      [] OTHER -> {}

MethodCommand(d, name) ==
    CASE d = "ptwDIAMENTOR" /\ name = "reset" -> <<"R", "E", "S">>
      [] d = "ptwDIAMENTOR" /\ name = "selftest" -> <<"T", "S", "T">>
      [] d = "ptwUNIDOS" /\ name = "clear" -> <<"C", "H", "R">>
      [] d = "ptwUNIDOS" /\ name = "hold" -> <<"H", "L", "D">>
      [] d = "ptwUNIDOS" /\ name = "intervall" -> <<"I", "N", "T">>
      [] d = "ptwUNIDOS" /\ name = "measure" -> <<"S", "T", "A">>
      [] d = "ptwUNIDOS" /\ name = "reset" -> <<"R", "E", "S">>
      [] d = "ptwUNIDOS" /\ name = "selftest" -> <<"A", "S", "T">>
      [] d = "ptwUNIDOS" /\ name = "zero" -> <<"N", "U", "L">>

\* a command method that writes its mnemonic and does not read the reply
method_write_only(d, name, reply) ==
    [io |-> <<W(MethodCommand(d, name))>>, result |-> Return(PyNone)]

\* a command method: the reply is validated by read and then dropped
method(d, name, reply) ==
    LET asked == ask(d, MethodCommand(d, name), reply)
    IN  [io |-> asked.io,
         result |-> IF asked.result.kind = "raise" THEN asked.result
                    ELSE Return(PyNone)]

----------------------------------------------------------------------------
(* The device: the replies it may give, and the values callers may set     *)

\* error replies beside the keys of the driver's table
OtherErrorReplies(d) ==
    IF d = "ptwDIAMENTOR"
    THEN {<<"E">>,
             <<"E", "0", "9">>,
             <<"E", "0", "1">>,
             <<"E", "9", "9">>,
             <<"E", "9", " ">>,
             <<"E", ";", "9">>}
    ELSE {<<"E">>,
             <<"E", ";", "2", "0">>,
             <<"E", ";", "0", ";", "1">>,
             <<"E", "2", "0", " ">>,
             <<"E", "1">>,
             <<"E", "9">>,
             <<"E", "0", "9">>,
             <<"E", "9", "9">>,
             <<"E", " ", "2", "0">>}

ErrorReplies(d) ==
    OtherErrorReplies(d) \cup
    (IF d = "ptwDIAMENTOR" THEN DOMAIN ptwDIAMENTOR_errors
     ELSE DOMAIN ptwUNIDOS_errors)

\* the error replies tried on property gets and sets
ErrorSamples(d) ==
    IF d = "ptwDIAMENTOR"
    THEN {<<"E", "9">>,
             <<"E", "0", "9">>,
             <<"E", "2", "4">>,
             <<"E">>}
    ELSE {<<"E", "2", "0">>,
             <<"E", ";", "2", "0">>,
             <<"E", "0", "8">>,
             <<"E", "9">>,
             <<"E">>}

\* the reply of a device that accepts a command: the command echoed
DeviceEcho(command) == command

\* what the device reports for a property after it accepted the command wire
DeviceReport(d, name, wire) ==
    IF d = "ptwUNIDOS" /\ name = "write_enabled"
    THEN (IF wire = <<"T", "O", "K">> THEN <<"T", "O", "K", ";", "1", ";", "t", "r", "u", "e">>
          ELSE <<"T", "O", "K", ";", "1", ";", "f", "a", "l", "s", "e">>)
    ELSE wire

\* replies to a property get that the device may give whatever was set
SampleReplies(d, name) ==
    CASE d = "ptwDIAMENTOR" /\ name = "pressure" ->
            {<<"P", "R", "E", "0", "5", "0", "0">>,
             <<"P", "R", "E", "1", "0", "1", "3">>,
             <<"P", "R", "E">>}
      [] d = "ptwDIAMENTOR" /\ name = "id" ->
            {<<"C", "R", "S", " ", "1", ".", "2", ".", "4">>}
      [] d = "ptwDIAMENTOR" /\ name = "meas_result" ->
            {<<"M", "1", "2", ".", "5", ",", "3", ".", "4", ",", "2", ",", "3", "0", ",", "0", ",", "0", ",", "0", ",", "0", ",", "1", "7">>,
             <<"M", "0", ",", "0", ",", "0", ",", "0", ",", "0", ",", "0", ",", "0", ",", "0", ",", "0">>,
             <<"M", "1", ",", "2", ",", "1", "0", ",", "5", "9", ",", "0", ",", "0", ",", "0", ",", "0", ",", "5", ",", "9">>,
             <<"M", "7", ",", "1", ",", "0", "7", ",", "0", "5", ",", "0", ",", "0", ",", "0", ",", "0", ",", "3">>,
             <<"M", "1", "2", ".", "5", ",", "3", ".", "4", ",", "2", ",", "3", "0">>,
             <<"M", "1", "2", "3", "4", "5", "6", "7", "8">>,
             <<"M", "1", ",", "2", ",", "x", ",", "5", ",", "0", ",", "0", ",", "0", ",", "0", ",", "1">>}
      [] d = "ptwDIAMENTOR" /\ name = "serial_number" ->
            {<<"S", "E", "R", "3", "4", "5", "6", "7", "8">>}
      [] d = "ptwDIAMENTOR" /\ name = "temperature" ->
            {<<"T", "M", "P", "A", "3", "0">>,
             <<"T", "M", "P", "A", "0", "0">>,
             <<"3", "0">>,
             <<"T", "M", "P", "A", "3", "0", ",", "1">>}
      [] d = "ptwDIAMENTOR" /\ name = "dap_unit" ->
            {<<"U", "1">>,
             <<"U", "4">>}
      [] d = "ptwUNIDOS" /\ name = "autostart_level" ->
            {<<"A", "S", "L", ";", "L", "O", "W">>,
             <<"A", "S", "L", ";", "H", "I", "G", "H">>}
      [] d = "ptwUNIDOS" /\ name = "id" ->
            {<<"P", "T", "W", ";", "U", "N", "I", "D", "O", "S", ";", "1", "2", "3", "4", "5", "6", "7", ";", "1", ".", "0", ";", "a", "b", "c">>}
      [] d = "ptwUNIDOS" /\ name = "integration_time" ->
            {<<"I", "T", ";", "1">>,
             <<"I", "T", ";", "3", "5", "9", "9", "9", "9", "9">>}
      [] d = "ptwUNIDOS" /\ name = "mac_address" ->
            {<<"M", "A", "C", ";", "0", "0", ":", "1", "1", ":", "2", "2", ":", "3", "3", ":", "4", "4", ":", "5", "5">>}
      [] d = "ptwUNIDOS" /\ name = "meas_result" ->
            {<<"M", "V", ";", "R", "E", "S", ";", "0", ".", "0", ";", "E", "-", "1", "2", ";", "C", ";", "0", ";", "0", ".", "0", ";", "E", "-", "1", "5", ";", "A", ";", "0", ";", "m", "i", "n", ";", "0", ";", "s", ";", "0", ";", "V", ";", "0", "x", "0">>,
             <<"M", "V", ";", "M", "E", "A", "S", ";", "1", ".", "5", ";", "E", "-", "9", ";", "C", ";", "0", ";", "2", ".", "5", ";", "E", "-", "1", "2", ";", "A", ";", "0", ";", "m", "i", "n", ";", "6", "0", ";", "s", ";", "4", "0", "0", ";", "V", ";", "5">>,
             <<"M", "V", ";", "H", "O", "L", "D", ";", "a", "b", "c", ";", "E", "-", "9", ";", "C", ";", "0", ";", "2", ".", "5", ";", "E", "-", "1", "2", ";", "A", ";", "0", ";", "m", "i", "n", ";", "6", "0", ";", "s", ";", "4", "0", "0", ";", "V", ";", "0">>,
             <<"M", "V", ";", "R", "E", "S">>}
      [] d = "ptwUNIDOS" /\ name = "range" ->
            {<<"R", "G", "E", ";", "V", "E", "R", "Y", "_", "L", "O", "W">>,
             <<"R", "G", "E", ";", "H", "I", "G", "H">>,
             <<"R", "G", "E">>}
      [] d = "ptwUNIDOS" /\ name = "range_max" ->
            {<<"M", "V", "M", ";", "L", "O", "W", ";", "2", ".", "2", ";", "E", "-", "9", ";", "A", ";", "0", ";", "m", "i", "n">>,
             <<"M", "V", "M", ";", "L", "O", "W">>}
      [] d = "ptwUNIDOS" /\ name = "range_res" ->
            {<<"M", "V", "R", ";", "L", "O", "W", ";", "1", ".", "0", ";", "E", "-", "1", "5", ";", "C", ";", "0", ";", "1", ".", "0", ";", "E", "-", "1", "5", ";", "A", ";", "0", ";", "m", "i", "n">>}
      [] d = "ptwUNIDOS" /\ name = "selftest_result" ->
            {<<"A", "S", "S", ";", "P", "a", "s", "s", "e", "d", ";", "0", ";", "1", "8", "0", ";", "L", "o", "w", ";", "3", ".", "0", ";", "E", "-", "1", "2", ";", "C", ";", "0", ";", "M", "e", "d", ";", "3", ".", "0", ";", "E", "-", "1", "0", ";", "C", ";", "0", ";", "H", "i", "g", "h", ";", "3", ".", "0", ";", "E", "-", "8", ";", "C", ";", "0">>,
             <<"A", "S", "S", ";", "N", "o", "t", "Y", "e", "t", ";", "0", ";", "1", "8", "0">>}
      [] d = "ptwUNIDOS" /\ name = "serial_number" ->
            {<<"S", "E", "R", ";", "1", "2", "3", "4", "5", "6">>}
      [] d = "ptwUNIDOS" /\ name = "status" ->
            {<<"S", ";", "R", "E", "S">>,
             <<"S", ";", "M", "E", "A", "S">>,
             <<"S", ";", "E", "R", "R", "O", "R">>}
      [] d = "ptwUNIDOS" /\ name = "tfi" ->
            {<<"T", "F", "I", ";", "n", "o", "n", "e">>}
      [] d = "ptwUNIDOS" /\ name = "use_autostart" ->
            {<<"A", "S", "E", ";", "t", "r", "u", "e">>,
             <<"A", "S", "E", ";", "f", "a", "l", "s", "e">>,
             <<"A", "S", "E", ";", "m", "a", "y", "b", "e">>}
      [] d = "ptwUNIDOS" /\ name = "use_autoreset" ->
            {<<"A", "S", "R", ";", "t", "r", "u", "e">>,
             <<"A", "S", "R", ";", "f", "a", "l", "s", "e">>}
      [] d = "ptwUNIDOS" /\ name = "use_electrical_units" ->
            {<<"U", "E", "L", ";", "t", "r", "u", "e">>,
             <<"U", "E", "L", ";", "f", "a", "l", "s", "e">>}
      [] d = "ptwUNIDOS" /\ name = "voltage" ->
            {<<"H", "V", ";", "-", "4", "0", "0">>,
             <<"H", "V", ";", "0">>,
             <<"H", "V", ";", "4", "0", "0">>}
      [] d = "ptwUNIDOS" /\ name = "write_enabled" ->
            {<<"T", "O", "K", ";", "1", ";", "t", "r", "u", "e">>,
             <<"T", "O", "K", ";", "1", ";", "f", "a", "l", "s", "e">>,
             <<"T", "O", "K", ";", "1", ";", "1">>,
             <<"T", "O", "K", ";", "t", "r", "u", "e">>,
             <<"T", "O", "K", ";", "1">>,
             <<"T", "O", "K">>}
      [] d = "ptwUNIDOS" /\ name = "zero_result" ->
            {<<"N", "U", "S", ";", "P", "a", "s", "s", "e", "d", ";", "0", ";", "8", "2">>}

NoSet == [name |-> "", value |-> PyNone, wire |-> <<>>]

GetReplies(d, name) ==
    SampleReplies(d, name) \cup ErrorSamples(d) \cup {<<>>} \cup
    (IF lastSet.name = name THEN {DeviceReport(d, name, lastSet.wire)} ELSE {})

SetReplies(d, command) == {DeviceEcho(command)} \cup ErrorSamples(d)

\* with two lines that hold an error code behind a leading ';' or blank
MethodReplies(d, command) ==
    {DeviceEcho(command), <<>>, <<";", "E", "2", "0">>, <<" ", "E", "2", "0">>}
    \cup ErrorReplies(d)

\* integers around both ends of a range and around the powers of ten in it
RangeInputs(lo, hi) ==
    {n \in (lo - Margin)..(hi + Margin) :
        \/ n <= lo + Inner
        \/ n >= hi - Inner
        \/ \E p \in {0, 10, 100, 1000, 10000} :
              n >= p - Inner /\ n <= p + Inner /\ n >= -(p + Inner)}
    \cup {-n : n \in {m \in {9, 10, 99, 100} : -m >= lo}}

SetInputs(d, name) ==
    LET acc == Accessor(d, name)
    IN  CASE acc.validator = "truncated_range" ->
                {PyInt(n) : n \in
                    IF acc.hi - acc.lo <= 100
                    THEN (acc.lo - Margin)..(acc.hi + Margin)
                    ELSE IF acc.hi - acc.lo <= 10000
                    THEN RangeInputs(acc.lo, acc.hi)
                    ELSE ((acc.lo - Margin)..(acc.lo + Inner)) \cup
                         ((acc.hi - Inner)..(acc.hi + Margin)) \cup {60, 1000}}
          [] acc.map_values \/ name = "write_enabled" ->
                {PyBool(TRUE), PyBool(FALSE), PyInt(1), PyInt(0), PyInt(2),
                 PyInt(-1), PyStr(<<"t", "r", "u", "e">>), PyNone}
          [] OTHER ->
                {acc.values[i] : i \in 1..Len(acc.values)} \cup
                {PyStr(<<"V", "E", "R", "Y", "_", "L", "O", "W">>), PyStr(<<"l", "o", "w">>), PyStr(<<"U", "L", "T", "R", "A">>), PyInt(0),
                 PyNone}

----------------------------------------------------------------------------
(* ParkerGV6                                                               *)

\* degrees_per_count = 0.00045 = DegreesPerCountNum / DegreesPerCountDen
DegreesPerCountNum == 45
DegreesPerCountDen == 100000

\* a float that is not integral: num / den
PyFloatQ(num, den) == [t |-> "floatq", num |-> num, den |-> den]

RECURSIVE Join(_)
\* "\n".join(lines)
Join(ls) == IF ls = <<>> THEN <<>>
            ELSE IF Len(ls) = 1 THEN ls[1]
            ELSE ls[1] \o <<"\n">> \o Join(Tail(ls))

\* the length of a match of \r\n\n(>|\?)?<space> at the head of s, else 0
PromptMatch(s) ==
    IF ~StartsWith(s, <<"\r", "\n", "\n">>) THEN 0
    ELSE IF Len(s) >= 5 /\ s[4] \in {">", "?"} /\ s[5] = " " THEN 5
    ELSE IF Len(s) >= 4 /\ s[4] = " " THEN 4
    ELSE 0

RECURSIVE PromptSub(_)
\* re.sub(r'\r\n\n(>|\?)? ', '', s)
PromptSub(s) ==
    IF s = <<>> THEN <<>>
    ELSE IF PromptMatch(s) > 0 THEN PromptSub(From(s, PromptMatch(s)))
    ELSE <<Head(s)>> \o PromptSub(Tail(s))

\* ParkerGV6.read on the lines the transport holds
ParkerGV6_read(ls) == PromptSub(Join(ls))

RECURSIVE DigitRun(_)
\* the longest run of digits at the head of s
DigitRun(s) == IF s # <<>> /\ IsDigit(Head(s))
               THEN <<Head(s)>> \o DigitRun(Tail(s)) ELSE <<>>

\* the match of -?\d+ at the head of s, <<>> when there is none
SignedDigitsAt(s) ==
    IF s # <<>> /\ Head(s) = "-" /\ DigitRun(Tail(s)) # <<>>
    THEN <<"-">> \o DigitRun(Tail(s))
    ELSE DigitRun(s)

\* re.search(r'(?<=prefix)-?\d+', s): int(match.group(0)), or None
SearchIntAfter(prefix, s) ==
    LET at == {i \in Len(prefix)..Len(s) :
                  /\ SubSeq(s, i - Len(prefix) + 1, i) = prefix
                  /\ SignedDigitsAt(From(s, i)) # <<>>}
        first == CHOOSE i \in at : \A j \in at : i <= j
    IN  IF at = {} THEN PyNone
        ELSE PyInt(IntLiteralValue(SignedDigitsAt(From(s, first))))

\* the index where sep first occurs in s, 0 when it does not
FindStr(s, sep) ==
    LET at == {i \in 1..(Len(s) - Len(sep) + 1) :
                  SubSeq(s, i, i + Len(sep) - 1) = sep}
    IN  IF at = {} THEN 0 ELSE CHOOSE i \in at : \A j \in at : i <= j

RECURSIVE SplitStr(_, _)
\* s.split(sep) for a separator of several characters
SplitStr(s, sep) ==
    LET i == FindStr(s, sep)
    IN  IF i = 0 THEN <<PyStr(s)>>
        ELSE <<PyStr(SubSeq(s, 1, i - 1))>> \o
             SplitStr(From(s, i + Len(sep) - 1), sep)

\* Instrument.ask with ParkerGV6.read
ParkerGV6_ask(command, ls) ==
    [io |-> <<W(command), R(ls, Return(PyStr(ParkerGV6_read(ls))))>>,
     text |-> ParkerGV6_read(ls)]

Done(events) == [io |-> events, result |-> Return(PyNone)]

ParkerGV6_enable == Done(<<W(<<"D", "R", "I", "V", "E", "1">>)>>)

ParkerGV6_disable == Done(<<W(<<"D", "R", "I", "V", "E", "0">>)>>)

ParkerGV6_status(ls) ==
    LET asked == ParkerGV6_ask(<<"T", "A", "S", "F">>, ls)
    IN  [io |-> asked.io,
         result |-> Return(PyList(SplitStr(asked.text, <<"\r", "\n", "\n">>)))]

\* position that takes the first integer of the reply, wherever it stands
ParkerGV6_position_any_integer(ls) ==
    LET asked == ParkerGV6_ask(<<"T", "P", "E">>, ls)
    IN  [io |-> asked.io,
         result |-> Return(SearchIntAfter(<<>>, asked.text))]

ParkerGV6_position(ls) ==
    LET asked == ParkerGV6_ask(<<"T", "P", "E">>, ls)
    IN  [io |-> asked.io,
         result |-> Return(SearchIntAfter(<<"T", "P", "E">>, asked.text))]

ParkerGV6_position_set(counts) ==
    Done(<<W(<<"D">> \o FormatD(Num(counts), 0))>>)

ParkerGV6_position_error(ls) ==
    LET asked == ParkerGV6_ask(<<"T", "P", "E", "R">>, ls)
    IN  [io |-> asked.io,
         result |-> Return(SearchIntAfter(<<"T", "P", "E", "R">>, asked.text))]

ParkerGV6_is_moving(ls) ==
    LET got == ParkerGV6_position(ls)
    IN  [io |-> got.io, result |-> Return(PyBool(got.result.value = PyNone))]

\* position * degrees_per_count, or None
ParkerGV6_angle(ls) ==
    LET got == ParkerGV6_position(ls)
        position == got.result.value
    IN  [io |-> got.io,
         result |-> IF position # PyNone
                    THEN Return(PyFloatQ(position.v * DegreesPerCountNum,
                                         DegreesPerCountDen))
                    ELSE Return(PyNone)]

\* int(x / degrees_per_count): the quotient truncated toward zero
Counts(angle) ==
    LET q == ((IF angle < 0 THEN -angle ELSE angle) * DegreesPerCountDen)
             \div DegreesPerCountNum
    IN  IF angle < 0 THEN -q ELSE q

ParkerGV6_angle_set(angle) == ParkerGV6_position_set(PyInt(Counts(Num(angle))))

ParkerGV6_angle_error(ls) ==
    LET got == ParkerGV6_position_error(ls)
        position_error == got.result.value
    IN  [io |-> got.io,
         result |-> IF position_error # PyNone
                    THEN Return(PyFloatQ(position_error.v * DegreesPerCountNum,
                                         DegreesPerCountDen))
                    ELSE Return(PyNone)]

ParkerGV6_move == Done(<<W(<<"G", "O">>)>>)

ParkerGV6_stop == Done(<<W(<<"S">>)>>)

ParkerGV6_kill == Done(<<W(<<"K">>)>>)

ParkerGV6_use_absolute_position ==
    Done(<<W(<<"M", "A", "1">>), W(<<"M", "C", "0">>)>>)

ParkerGV6_use_relative_position ==
    Done(<<W(<<"M", "A", "0">>), W(<<"M", "C", "0">>)>>)

\* the limits with the codes of one side taken for the other
ParkerGV6_set_hardware_limits_swapped(positive, negative) ==
    IF Truthy(positive) /\ Truthy(negative) THEN Done(<<W(<<"L", "H", "3">>)>>)
    ELSE IF Truthy(positive) /\ ~Truthy(negative) THEN Done(<<W(<<"L", "H", "1">>)>>)
    ELSE IF ~Truthy(positive) /\ Truthy(negative) THEN Done(<<W(<<"L", "H", "2">>)>>)
    ELSE Done(<<W(<<"L", "H", "0">>)>>)

ParkerGV6_set_hardware_limits(positive, negative) ==
    IF Truthy(positive) /\ Truthy(negative) THEN Done(<<W(<<"L", "H", "3">>)>>)
    ELSE IF Truthy(positive) /\ ~Truthy(negative) THEN Done(<<W(<<"L", "H", "2">>)>>)
    ELSE IF ~Truthy(positive) /\ Truthy(negative) THEN Done(<<W(<<"L", "H", "1">>)>>)
    ELSE Done(<<W(<<"L", "H", "0">>)>>)

\* write("LSPOS%d" % int(positive)), then write("LSNEG%d" % int(negative))
ParkerGV6_set_software_limits(positive, negative) ==
    LET p == PyIntOf(positive)
        n == PyIntOf(negative)
        first == W(<<"L", "S", "P", "O", "S">> \o FormatD(p.value.v, 0))
    IN  IF p.kind = "raise" THEN [io |-> <<>>, result |-> p]
        ELSE IF n.kind = "raise" THEN [io |-> <<first>>, result |-> n]
        ELSE Done(<<first,
                    W(<<"L", "S", "N", "E", "G">> \o FormatD(n.value.v, 0))>>)

ParkerGV6_echo ==
    [io |-> <<>>, result |-> Raise("NotImplementedError", <<>>)]

ParkerGV6_echo_set(enable) ==
    IF Truthy(enable) THEN Done(<<W(<<"E", "C", "H", "O", "1">>)>>)
    ELSE Done(<<W(<<"E", "C", "H", "O", "0">>)>>)

\* the getters of acceleration, average_acceleration and velocity: pass
ParkerGV6_acceleration == Done(<<>>)

ParkerGV6_average_acceleration == Done(<<>>)

ParkerGV6_velocity == Done(<<>>)

\* "A" + str(float(acceleration))
ParkerGV6_acceleration_set(acceleration) ==
    Done(<<W(<<"A">> \o FormatS(PyFloat(Num(acceleration))))>>)

ParkerGV6_average_acceleration_set(acceleration) ==
    Done(<<W(<<"A", "A">> \o FormatS(PyFloat(Num(acceleration))))>>)

\* "V" + str(int(velocity))
ParkerGV6_velocity_set_int(velocity) ==
    Done(<<W(<<"V">> \o FormatD(Num(velocity), 0))>>)

ParkerGV6_velocity_set(velocity) ==
    Done(<<W(<<"V">> \o FormatS(PyFloat(Num(velocity))))>>)

ParkerGV6_set_defaults ==
    Done(ParkerGV6_echo_set(PyBool(FALSE)).io \o
         ParkerGV6_set_hardware_limits(PyBool(FALSE), PyBool(FALSE)).io \o
         ParkerGV6_use_absolute_position.io \o
         ParkerGV6_average_acceleration_set(PyInt(1)).io \o
         ParkerGV6_acceleration_set(PyInt(1)).io \o
         ParkerGV6_velocity_set(PyInt(3)).io)

\* write RESET, sleep, then self.setDefault(): the class has no such method
ParkerGV6_reset ==
    [io |-> <<W(<<"R", "E", "S", "E", "T">>)>>,
     result |-> Raise("AttributeError", <<"setDefault">>)]

ParkerGetters ==
    {"status", "angle", "angle_error", "position", "position_error", "echo",
     "acceleration", "average_acceleration", "velocity"}

ParkerSetters ==
    {"angle", "position", "echo", "acceleration", "average_acceleration",
     "velocity"}

ParkerMethods ==
    {"set_defaults", "reset", "enable", "disable", "is_moving", "move", "stop",
     "kill", "use_absolute_position", "use_relative_position",
     "set_hardware_limits", "set_software_limits"}

ParkerGV6_get(name, ls) ==
    CASE name = "status" -> ParkerGV6_status(ls)
      [] name = "angle" -> ParkerGV6_angle(ls)
      [] name = "angle_error" -> ParkerGV6_angle_error(ls)
      [] name = "position" -> ParkerGV6_position(ls)
      [] name = "position_error" -> ParkerGV6_position_error(ls)
      [] name = "echo" -> ParkerGV6_echo
      [] name = "acceleration" -> ParkerGV6_acceleration
      [] name = "average_acceleration" -> ParkerGV6_average_acceleration
      [] name = "velocity" -> ParkerGV6_velocity

ParkerGV6_set(name, value) ==
    CASE name = "angle" -> ParkerGV6_angle_set(value)
      [] name = "position" -> ParkerGV6_position_set(value)
      [] name = "echo" -> ParkerGV6_echo_set(value)
      [] name = "acceleration" -> ParkerGV6_acceleration_set(value)
      [] name = "average_acceleration" ->
            ParkerGV6_average_acceleration_set(value)
      [] name = "velocity" -> ParkerGV6_velocity_set(value)

\* arg is the pair of arguments of the methods that take two
ParkerGV6_call(name, arg, ls) ==
    CASE name = "set_defaults" -> ParkerGV6_set_defaults
      [] name = "reset" -> ParkerGV6_reset
      [] name = "enable" -> ParkerGV6_enable
      [] name = "disable" -> ParkerGV6_disable
      [] name = "is_moving" -> ParkerGV6_is_moving(ls)
      [] name = "move" -> ParkerGV6_move
      [] name = "stop" -> ParkerGV6_stop
      [] name = "kill" -> ParkerGV6_kill
      [] name = "use_absolute_position" -> ParkerGV6_use_absolute_position
      [] name = "use_relative_position" -> ParkerGV6_use_relative_position
      [] name = "set_hardware_limits" ->
            ParkerGV6_set_hardware_limits(arg.v[1], arg.v[2])
      [] name = "set_software_limits" ->
            ParkerGV6_set_software_limits(arg.v[1], arg.v[2])

\* the lines the motor controller may hold for a read
ParkerReplies ==
    {<<>>,
     <<<<"*", "T", "P", "E", "1", "0", "0", "0">>>>,
     <<<<"*", "T", "P", "E", "-", "2", "5", "0">>>>,
     <<<<"*", "T", "P", "E">>>>,
     <<<<"*", "T", "P", "E", "R", "-", "5">>>>,
     <<<<"*", "T", "P", "E", "R", "1", "2">>>>,
     <<<<"T", "P", "E", "R", "7", " ", "T", "P", "E", "4", "2">>>>,
     <<<<"T", "P", "E", "1", "2", "\r", "\n">>, <<">", " ">>>>,
     <<<<"T", "P", "E", "-">>>>,
     <<<<"*", "T", "P", "E", "0", "\r", "\n">>, <<"?", " ">>>>,
     <<<<"M", "O", "V", "I", "N", "G", "\r", "\n">>, <<" ", "*", "T", "P", "E", "-", "7">>>>,
     <<<<"A", "X", "I", "S", " ", "R", "E", "A", "D", "Y", "\r", "\n", "\n", "N", "O", "T", " ", "M", "O", "V", "I", "N", "G">>>>}

ParkerNumbers == {-1000, -9, -1, 0, 1, 3, 9, 90, 2000}

ParkerSetInputs(name) ==
    IF name = "echo" THEN {PyBool(TRUE), PyBool(FALSE)}
    ELSE {PyInt(n) : n \in ParkerNumbers}

ParkerCallInputs(name) ==
    CASE name = "set_hardware_limits" ->
            {PyList(<<PyBool(a), PyBool(b)>>) : a, b \in BOOLEAN}
      [] name = "set_software_limits" ->
            {PyList(<<a, b>>) :
                a \in {PyInt(-1000), PyInt(0), PyInt(2000),
                       [t |-> "floatlit", lit |-> <<"2", ".", "5">>]},
                b \in {PyInt(-1000), PyInt(0), PyInt(2000),
                       [t |-> "floatlit", lit |-> <<"-", "2", ".", "5">>],
                       PyNone}}
      [] OTHER -> {PyNone}

----------------------------------------------------------------------------
(* Operations: each is one call of the caller                              *)

Init ==
    /\ inst \in Drivers
    /\ op = [kind |-> "init", name |-> "__init__", arg |-> PyNone]
    /\ io = IF inst = "ParkerGV6" THEN ParkerGV6_set_defaults.io ELSE <<>>
    /\ result = Return(PyNone)
    /\ lastSet = NoSet
    /\ unread = 0

\* the caller is between two calls; the motor controller is written commands
\* it does not answer (echo is off), so unread counts the dosemeters' lines
Idle == op.kind \in {"init", "idle"}

\* a get that answers from the value set before, without asking the device
PropertyGet_cached ==
    /\ Idle
    /\ unread < MaxUnread
    /\ \E name \in Properties(inst) :
       \E reply \in GetReplies(inst, name) :
           LET r == fget(inst, name, reply)
               cached == lastSet.name = name
           IN  /\ op' = [kind |-> "get", name |-> name, arg |-> PyNone]
               /\ io' = IF cached THEN <<>> ELSE r.io
               /\ result' = IF cached THEN Return(lastSet.value) ELSE r.result
               /\ unread' = unread + (IF cached THEN 0 ELSE Unread(r.io))
               /\ UNCHANGED <<inst, lastSet>>

PropertyGet ==
    /\ Idle
    /\ unread < MaxUnread
    /\ \E name \in Properties(inst) :
       \E reply \in GetReplies(inst, name) :
           LET r == fget(inst, name, reply)
           IN  /\ op' = [kind |-> "get", name |-> name, arg |-> PyNone]
               /\ io' = r.io
               /\ result' = r.result
               /\ unread' = unread + Unread(r.io)
               /\ UNCHANGED <<inst, lastSet>>

PropertySet ==
    /\ Idle
    /\ unread < MaxUnread
    /\ \E name \in Controls(inst) :
       \E value \in SetInputs(inst, name) :
           LET acc == Accessor(inst, name)
               sent == fset(inst, name, value, <<>>).io
           IN  \E reply \in IF sent = <<>> THEN {<<>>}
                            ELSE SetReplies(inst, sent[1].s) :
                   LET r == fset(inst, name, value, reply)
                   IN  /\ op' = [kind |-> "set", name |-> name, arg |-> value]
                       /\ io' = r.io
                       /\ result' = r.result
                       /\ lastSet' = IF r.io # <<>> /\ r.result.kind = "return"
                                     THEN [name |-> name, value |-> value,
                                           wire |-> r.io[1].s]
                                     ELSE NoSet
                       /\ unread' = unread + Unread(r.io)
                       /\ UNCHANGED inst

MethodCall ==
    /\ Idle
    /\ unread < MaxUnread
    /\ \E name \in Methods(inst) :
       \E reply \in MethodReplies(inst, MethodCommand(inst, name)) :
           LET r == method(inst, name, reply)
           IN  /\ op' = [kind |-> "call", name |-> name, arg |-> PyNone]
               /\ io' = r.io
               /\ result' = r.result
               /\ lastSet' = NoSet
               /\ unread' = unread + Unread(r.io)
               /\ UNCHANGED inst

ParkerGet ==
    /\ Idle
    /\ inst = "ParkerGV6"
    /\ \E name \in ParkerGetters :
       \E ls \in ParkerReplies :
           LET r == ParkerGV6_get(name, ls)
           IN  /\ op' = [kind |-> "get", name |-> name, arg |-> PyNone]
               /\ io' = r.io
               /\ result' = r.result
               /\ UNCHANGED <<inst, lastSet, unread>>

ParkerSet ==
    /\ Idle
    /\ inst = "ParkerGV6"
    /\ \E name \in ParkerSetters :
       \E value \in ParkerSetInputs(name) :
           LET r == ParkerGV6_set(name, value)
           IN  /\ op' = [kind |-> "set", name |-> name, arg |-> value]
               /\ io' = r.io
               /\ result' = r.result
               /\ lastSet' = [name |-> name, value |-> value,
                              wire |-> r.io[1].s]
               /\ UNCHANGED <<inst, unread>>

ParkerCall ==
    /\ Idle
    /\ inst = "ParkerGV6"
    /\ \E name \in ParkerMethods :
       \E arg \in ParkerCallInputs(name) :
       \E ls \in ParkerReplies :
           LET r == ParkerGV6_call(name, arg, ls)
           IN  /\ op' = [kind |-> "call", name |-> name, arg |-> arg]
               /\ io' = r.io
               /\ result' = r.result
               /\ lastSet' = IF name = "is_moving" THEN lastSet ELSE NoSet
               /\ UNCHANGED <<inst, unread>>

\* the two declarations of ptwDIAMENTOR that are read by the compiler and
\* never become properties
Compile ==
    /\ Idle
    /\ inst = "ptwDIAMENTOR"
    /\ \E name \in {"is_calibrated", "is_eeprom_ok"} :
           LET r == IF name = "is_calibrated" THEN ptwDIAMENTOR_is_calibrated
                    ELSE ptwDIAMENTOR_is_eeprom_ok
           IN  /\ op' = [kind |-> "compile", name |-> name, arg |-> PyNone]
               /\ io' = r.io
               /\ result' = r.result
               /\ UNCHANGED <<inst, lastSet, unread>>

\* the caller takes the outcome of the call and goes on
Continue ==
    /\ ~Idle
    /\ op' = [kind |-> "idle", name |-> "", arg |-> PyNone]
    /\ io' = <<>>
    /\ result' = Return(PyNone)
    /\ UNCHANGED <<inst, lastSet, unread>>

Next ==
    \/ PropertyGet
    \/ PropertySet
    \/ MethodCall
    \/ ParkerCall
    \/ ParkerSet
    \/ ParkerGet
    \/ Compile
    \/ Continue

Spec == Init /\ [][Next]_vars

----------------------------------------------------------------------------
(* Properties                                                              *)

PTW == {"ptwDIAMENTOR", "ptwUNIDOS"}

Called == op.kind \in {"get", "set", "call"}

\* the replies read during the operation
RepliesRead == {io[i].s : i \in {j \in 1..Len(io) : io[j].e = "r"}}

IsErrorReply(reply) == reply # <<>> /\ reply[1] = "E"

\* the error code of an error reply, by the convention of each driver
ErrorCodeOf(d, reply) ==
    IF d = "ptwDIAMENTOR" THEN reply ELSE Strip(Remove(reply, ";"))

ErrorTable(d) ==
    IF d = "ptwDIAMENTOR" THEN ptwDIAMENTOR_errors ELSE ptwUNIDOS_errors

\* C1: in ptwDIAMENTOR and ptwUNIDOS, an operation that reads a reply
\* beginning with 'E' raises: ValueError with the message '<code>, <text of
\* the table>' when the code is a key of the driver's table, ConnectionError
\* when it is not; no such reply comes back as a value, from read() or from
\* the operation.
C1_ErrorReplyRaises ==
    (inst \in PTW /\ Called) =>
        \A i \in 1..Len(io) :
            (io[i].e = "r" /\ IsErrorReply(io[i].s)) =>
                LET code == ErrorCodeOf(inst, io[i].s)
                IN  /\ io[i].out.kind = "raise"
                    /\ result = io[i].out
                    /\ IF code \in DOMAIN ErrorTable(inst)
                       THEN /\ result.exc = "ValueError"
                            /\ result.msg = <<code, ", ", ErrorTable(inst)[code]>>
                       ELSE result.exc = "ConnectionError"

\* an error reply in the delimited form 'E;20' is read by ptwUNIDOS and raises
\* the ValueError of code E20
C1_Witness ==
    /\ inst = "ptwUNIDOS"
    /\ op.kind = "get"
    /\ <<"E", ";", "2", "0">> \in RepliesRead
    /\ result.kind = "raise"
    /\ result.exc = "ValueError"
    /\ result.msg[1] = <<"E", "2", "0">>

\* C2 as stated: the reply 'E09' makes ptwDIAMENTOR.read raise ValueError
\* whose message contains 'Parameter is out of range.'
C2_E09_RaisesDeviceError ==
    (inst = "ptwDIAMENTOR" /\ Called /\ <<"E", "0", "9">> \in RepliesRead) =>
        /\ result.kind = "raise"
        /\ result.exc = "ValueError"
        /\ \E k \in 1..Len(result.msg) :
              result.msg[k] = "Parameter is out of range."

\* C2 amended: the reply 'E9' makes ptwDIAMENTOR.read raise ValueError with
\* the message 'E9, Parameter is out of range.'; the zero-padded reply 'E09'
\* is no key of the table and raises ConnectionError.
C2_E9_RaisesDeviceError ==
    (inst = "ptwDIAMENTOR" /\ Called) =>
        /\ <<"E", "9">> \in RepliesRead =>
              result = Raise("ValueError",
                             <<<<"E", "9">>, ", ", "Parameter is out of range.">>)
        /\ <<"E", "0", "9">> \in RepliesRead =>
              (result.kind = "raise" /\ result.exc = "ConnectionError")

C2_Witness ==
    /\ inst = "ptwDIAMENTOR"
    /\ op.kind = "set"
    /\ <<"E", "9">> \in RepliesRead
    /\ result.kind = "raise"
    /\ result.exc = "ValueError"

\* the accessors of ptwUNIDOS validated by strict_discrete_set
DiscreteAccessors ==
    {"autostart_level", "range", "use_autostart", "use_autoreset",
     "use_electrical_units", "write_enabled"}

\* the set an accessor declares: the list, or the keys of the dict
Declared(acc) == IF acc.mapping # <<>> THEN Keys(acc.mapping) ELSE acc.values

\* C3: setting a discrete-set accessor of ptwUNIDOS to a value outside its
\* declared set raises ValueError and the transport sees no write and no read.
C3_DiscreteSetRejectsBeforeWrite ==
    (/\ inst = "ptwUNIDOS"
     /\ op.kind = "set"
     /\ op.name \in DiscreteAccessors
     /\ ~PyIn(op.arg, Declared(Accessor(inst, op.name)))) =>
        /\ result.kind = "raise"
        /\ result.exc = "ValueError"
        /\ io = <<>>

\* the range 'ULTRA' is rejected with nothing sent
C3_Witness ==
    /\ inst = "ptwUNIDOS"
    /\ op = [kind |-> "set", name |-> "range", arg |-> PyStr(<<"U", "L", "T", "R", "A">>)]
    /\ result.kind = "raise"
    /\ io = <<>>

\* the accessors validated against a closed range
RangeAccessors(d) ==
    CASE d = "ptwDIAMENTOR" -> {"temperature", "pressure", "dap_unit"}
      [] d = "ptwUNIDOS" -> {"integration_time", "voltage"}
      [] OTHER -> {}

\* the command a set of the integer n is expected to write
ExpectedSetCommand(acc, n) ==
    acc.set_command \o (IF acc.conv = "d" THEN FormatD(n, acc.width)
                        ELSE FormatD(n, 0))

\* C4 as stated: for every range accessor, setting min or max succeeds and
\* writes that value; setting min-1 or max+1 fails validation and nothing is
\* written.
C4_RangeBoundaries ==
    (inst \in PTW /\ op.kind = "set" /\ op.name \in RangeAccessors(inst)) =>
        LET acc == Accessor(inst, op.name)
        IN  /\ op.arg.v \in {acc.lo, acc.hi} =>
                  /\ Len(io) >= 1
                  /\ io[1] = W(ExpectedSetCommand(acc, op.arg.v))
            /\ op.arg.v \in {acc.lo - 1, acc.hi + 1} =>
                  /\ result.kind = "raise"
                  /\ io = <<>>

\* the accessors that have both a get and a set command
RoundTripAccessors(d) ==
    CASE d = "ptwDIAMENTOR" -> {"temperature", "pressure", "dap_unit"}
      [] d = "ptwUNIDOS" ->
            {"range", "autostart_level", "integration_time", "voltage",
             "use_autostart", "use_autoreset", "use_electrical_units",
             "write_enabled"}
      [] OTHER -> {}

\* the value is in the valid domain of the accessor
InDomain(acc, value) ==
    IF acc.validator = "truncated_range"
    THEN value.t = "int" /\ acc.lo <= value.v /\ value.v <= acc.hi
    ELSE PyIn(value, Declared(acc))

\* the get follows a set of the same accessor that the device accepted, and
\* the device answers it with what it stored
GetAfterSet ==
    /\ inst \in PTW
    /\ op.kind = "get"
    /\ lastSet.name = op.name
    /\ Len(io) = 2
    /\ io[2].s = DeviceReport(inst, op.name, lastSet.wire)

DigitAt(n, k) == DigitChars[((n \div (10 ^ k)) % 10) + 1]

\* C6: ptwDIAMENTOR writes 'TMPA' and two zero-padded digits for every
\* temperature in 0..70, 'PRE' and four zero-padded digits for every pressure
\* in 500..1500, and the temperature get of the reply 'TMPA30' returns the
\* integer 30.
C6_FixedWidth ==
    (inst = "ptwDIAMENTOR" /\ Called) =>
        /\ (/\ op.kind = "set" /\ op.name = "temperature"
            /\ op.arg.v \in 0..70) =>
              /\ Len(io) >= 1
              /\ io[1] = W(<<"T", "M", "P", "A",
                             DigitAt(op.arg.v, 1), DigitAt(op.arg.v, 0)>>)
        /\ (/\ op.kind = "set" /\ op.name = "pressure"
            /\ op.arg.v \in 500..1500) =>
              /\ Len(io) >= 1
              /\ io[1] = W(<<"P", "R", "E",
                             DigitAt(op.arg.v, 3), DigitAt(op.arg.v, 2),
                             DigitAt(op.arg.v, 1), DigitAt(op.arg.v, 0)>>)
        /\ (/\ op.kind = "get" /\ op.name = "temperature"
            /\ <<"T", "M", "P", "A", "3", "0">> \in RepliesRead) =>
              result = Return(PyInt(30))

\* the temperature 0 went out as 'TMPA00'
C6_Witness ==
    /\ inst = "ptwDIAMENTOR"
    /\ op = [kind |-> "set", name |-> "temperature", arg |-> PyInt(0)]
    /\ io[1] = W(<<"T", "M", "P", "A", "0", "0">>)
    /\ result.kind = "return"

\* one write, then one read, and nothing else
OneWriteOneRead == Len(io) = 2 /\ io[1].e = "w" /\ io[2].e = "r"

\* no write follows a write whose reply has not been read
NoWriteAfterUnreadWrite ==
    \A i \in 1..(Len(io) - 1) : ~(io[i].e = "w" /\ io[i + 1].e = "w")

\* C7 as stated: every property get, property set and command method of the
\* three drivers that returns to its caller has done exactly one write followed
\* by exactly one read, and has written no second command before that read.
C7_OneWriteOneReadEverywhere ==
    (Called /\ result.kind = "return") =>
        (OneWriteOneRead /\ NoWriteAfterUnreadWrite)

\* the operations of ParkerGV6 that query the controller
ParkerQueries ==
    {"status", "position", "position_error", "angle", "angle_error",
     "is_moving"}

\* C7 amended: every property get, every property set that passes validation
\* and every command method of ptwDIAMENTOR and ptwUNIDOS does exactly one
\* write followed by exactly one read (a set that fails validation does
\* neither); of ParkerGV6 only the queries status, position, position_error,
\* angle, angle_error and is_moving do so, and every other ParkerGV6 operation
\* never reads: it writes its commands one after the other (none for the
\* getters of echo, acceleration, average_acceleration and velocity).
C7_OneWriteOneReadPerQuery ==
    Called =>
        IF inst \in PTW
        THEN \/ OneWriteOneRead
             \/ /\ op.kind = "set"
                /\ io = <<>>
                /\ result.kind = "raise"
                /\ result.exc = "ValueError"
        ELSE IF op.name \in ParkerQueries /\ op.kind # "set"
             THEN OneWriteOneRead
             ELSE /\ Reads(io) = <<>>
                  /\ op.kind = "get" => io = <<>>
                  /\ op.kind = "set" => Len(io) = 1

\* use_absolute_position wrote 'MA1' and 'MC0' and read nothing
C7_Witness ==
    /\ inst = "ParkerGV6"
    /\ op.kind = "call"
    /\ op.name = "use_absolute_position"
    /\ io = <<W(<<"M", "A", "1">>), W(<<"M", "C", "0">>)>>
    /\ result.kind = "return"

\* C8 as stated: for a reply that does not begin with 'E', ptwUNIDOS.read
\* returns the text after the first ';' with every ';' replaced by ','; what
\* it returns holds no ';' and does not contain the echoed command, and a
\* reply without ';' gives the empty string.
C8_EchoNeverInRemainder ==
    (inst = "ptwUNIDOS" /\ Called) =>
        \A i \in 1..Len(io) :
            (io[i].e = "r" /\ ~IsErrorReply(io[i].s)) =>
                LET reply == io[i].s
                    cut == Find(reply, ";")
                    command == IF cut = 0 THEN reply
                               ELSE SubSeq(reply, 1, cut - 1)
                IN  /\ io[i].out.kind = "return"
                    /\ ~Contains(io[i].out.value.v, <<";">>)
                    /\ cut = 0 => io[i].out.value.v = <<>>
                    /\ command # <<>> =>
                          ~Contains(io[i].out.value.v, command)

\* C8 amended: for a reply that does not begin with 'E', ptwUNIDOS.read
\* returns exactly the text after the first ';', character by character, with
\* every ';' replaced by ','; what it returns holds no ';', and a reply
\* without ';' gives the empty string. (The text of the command may occur
\* again in that remainder: 'S;RES' gives 'RES'.)
C8_RemainderAfterFirstDelimiter ==
    (inst = "ptwUNIDOS" /\ Called) =>
        \A i \in 1..Len(io) :
            (io[i].e = "r" /\ ~IsErrorReply(io[i].s)) =>
                LET reply == io[i].s
                    cut == Find(reply, ";")
                    returned == io[i].out.value.v
                IN  /\ io[i].out.kind = "return"
                    /\ io[i].out.value.t = "str"
                    /\ ~Contains(returned, <<";">>)
                    /\ cut = 0 => returned = <<>>
                    /\ cut > 0 =>
                          /\ Len(returned) = Len(reply) - cut
                          /\ \A k \in 1..Len(returned) :
                                returned[k] = IF reply[cut + k] = ";" THEN ","
                                              ELSE reply[cut + k]

\* the reply 'TOK;1;true' is returned as '1,true'
C8_Witness ==
    /\ inst = "ptwUNIDOS"
    /\ op.kind = "get"
    /\ Len(io) = 2
    /\ io[2].s = <<"T", "O", "K", ";", "1", ";", "t", "r", "u", "e">>
    /\ io[2].out = Return(PyStr(<<"1", ",", "t", "r", "u", "e">>))

C10_SetErrorPropagates ==
    (inst \in PTW /\ op.kind = "set" /\ io # <<>>) =>
        /\ OneWriteOneRead
        /\ IsErrorReply(io[2].s) =>
              /\ result.kind = "raise"
              /\ result.exc \in {"ValueError", "ConnectionError"}
              /\ result = io[2].out
        /\ ~IsErrorReply(io[2].s) =>
              /\ check_set_errors(inst, io[2].s) = Return(PyList(<<>>))
              /\ result = Return(PyNone)

\* the set of a range was answered 'E;20' and raised the error of code E20
C10_Witness ==
    /\ inst = "ptwUNIDOS"
    /\ op.kind = "set"
    /\ op.name = "range"
    /\ Len(io) = 2
    /\ io[2].s = <<"E", ";", "2", "0">>
    /\ result = Raise("ValueError",
                      <<<<"E", "2", "0">>, ", ", "No user rights, no write permission">>)

\* the query each querying property of ParkerGV6 asks
ParkerQueryCommand(name) ==
    CASE name = "status" -> <<"T", "A", "S", "F">>
      [] name \in {"position", "angle"} -> <<"T", "P", "E">>
      [] name \in {"position_error", "angle_error"} -> <<"T", "P", "E", "R">>

\* C11 as stated: every property get of every driver writes its query and
\* reads the reply to it.
C11_EveryGetQueries ==
    op.kind = "get" => OneWriteOneRead

\* C11 amended: every property get of ptwDIAMENTOR and ptwUNIDOS, and the gets
\* of status, position, position_error, angle and angle_error of ParkerGV6,
\* write the query of the property, read one reply and give the caller what
\* the accessor makes of that reply alone, whatever was set before (after the
\* temperature 30 was set, the reply 'TMPA00' gives 0; after the position 2000
\* was set, the reply '*TPE1000' gives 1000); the gets of echo, acceleration,
\* average_acceleration and velocity of ParkerGV6 ask nothing and give no
\* value: None, or NotImplementedError for echo. No get gives back a value
\* kept from a set.
C11_FreshQuery ==
    op.kind = "get" =>
        IF inst \in PTW
        THEN /\ OneWriteOneRead
             /\ io[1] = W(Accessor(inst, op.name).get_command)
             /\ result = fget(inst, op.name, io[2].s).result
             /\ (/\ op.name = "temperature"
                 /\ lastSet.value = PyInt(30)
                 /\ io[2].s = <<"T", "M", "P", "A", "0", "0">>) =>
                   result = Return(PyInt(0))
        ELSE IF op.name \in ParkerQueries
        THEN /\ OneWriteOneRead
             /\ io[1] = W(ParkerQueryCommand(op.name))
             /\ result = ParkerGV6_get(op.name, io[2].s).result
             /\ (/\ op.name = "position"
                 /\ lastSet.value = PyInt(2000)
                 /\ io[2].s = <<<<"*", "T", "P", "E", "1", "0", "0", "0">>>>) =>
                   result = Return(PyInt(1000))
        ELSE /\ io = <<>>
             /\ result = IF op.name = "echo"
                         THEN Raise("NotImplementedError", <<>>)
                         ELSE Return(PyNone)

\* the temperature 30 was set and accepted, the next get is answered 'TMPA00'
\* and returns 0
C11_Witness ==
    /\ inst = "ptwDIAMENTOR"
    /\ op.kind = "get"
    /\ op.name = "temperature"
    /\ lastSet.name = "temperature"
    /\ lastSet.value = PyInt(30)
    /\ io = <<W(<<"T", "M", "P", "A">>),
              R(<<"T", "M", "P", "A", "0", "0">>,
                Return(PyStr(<<"T", "M", "P", "A", "0", "0">>)))>>
    /\ result = Return(PyInt(0))

\* the flags field of the reply to 'MV' is the last of its fifteen fields
FlagsField(reply) == Split(reply, ";")[16]

\* C12 as stated: the meas_result get of ptwUNIDOS returns, as its flags, the
\* list of the descriptions of the bits set in the flags field of the reply:
\* a list, with two descriptions for the flag word 5.
C12_FlagsDecoded ==
    (/\ inst = "ptwUNIDOS"
     /\ op.kind = "get"
     /\ op.name = "meas_result"
     /\ result.kind = "return") =>
        /\ result.value.t = "list"
        /\ Len(result.value.v) = 7
        /\ result.value.v[7].t = "list"
        /\ FlagsField(io[2].s) = <<"5">> => Len(result.value.v[7].v) = 2

\* read() took the reply for an error of the driver's table
KnownError(out) == out.kind = "raise" /\ out.exc = "ValueError"

\* read() took the reply for an error it has no entry for
UnknownError(out) == out.kind = "raise" /\ out.exc = "ConnectionError"

\* the replies the claim names, each with what read() makes of it per driver
ErrorConventionCases(d, reply, out) ==
    /\ (d = "ptwUNIDOS" /\ reply \in {<<"E", ";", "2", "0">>, <<"E", "2", "0">>}) =>
          out = Raise("ValueError",
                      <<<<"E", "2", "0">>, ", ",
                        "No user rights, no write permission">>)
    /\ reply = <<"E", "1">> =>
          IF d = "ptwDIAMENTOR" THEN KnownError(out) ELSE UnknownError(out)
    /\ reply = <<"E", "0", "1">> =>
          IF d = "ptwDIAMENTOR" THEN UnknownError(out) ELSE KnownError(out)
    /\ reply = <<"E", "2", "4">> =>
          /\ KnownError(out)
          /\ out.msg[3] = IF d = "ptwDIAMENTOR"
                          THEN "DIAMENTOR is not calibrated electrically."
                          ELSE "Memory error: data could not be stored"

\* C13 as stated: ptwUNIDOS takes a reply for a known device error exactly
\* when the reply without its ';' and without surrounding whitespace is a key
\* of its table, ptwDIAMENTOR exactly when the reply as it came is a key of
\* its table; 'E;20' and 'E20', 'E1', 'E01' and 'E24' come out as named.
C13_ErrorConventions ==
    (inst \in PTW /\ Called) =>
        \A i \in 1..Len(io) :
            io[i].e = "r" =>
                /\ KnownError(io[i].out) <=>
                      IF inst = "ptwUNIDOS"
                      THEN Strip(Remove(io[i].s, ";")) \in DOMAIN ptwUNIDOS_errors
                      ELSE io[i].s \in DOMAIN ptwDIAMENTOR_errors
                /\ ErrorConventionCases(inst, io[i].s, io[i].out)

\* C13 amended: ptwUNIDOS takes a reply for a known device error exactly when
\* the reply begins with 'E' and, without its ';' and without surrounding
\* whitespace, is a zero-padded key of its table (a reply such as ';E20' or
\* ' E20' does not begin with 'E' and is decoded as a value); ptwDIAMENTOR
\* exactly when the reply as it came is an unpadded key of its table. So
\* 'E;20' and 'E20' raise ValueError 'E20, No user rights, no write
\* permission' in ptwUNIDOS, 'E1' is a ValueError for ptwDIAMENTOR and a
\* ConnectionError for ptwUNIDOS, 'E01' the reverse, and 'E24' is a ValueError
\* with a different message in each driver.
C13_ErrorConventionsOfErrorReplies ==
    (inst \in PTW /\ Called) =>
        \A i \in 1..Len(io) :
            io[i].e = "r" =>
                /\ KnownError(io[i].out) <=>
                      IF inst = "ptwUNIDOS"
                      THEN /\ IsErrorReply(io[i].s)
                           /\ Strip(Remove(io[i].s, ";")) \in DOMAIN ptwUNIDOS_errors
                      ELSE io[i].s \in DOMAIN ptwDIAMENTOR_errors
                /\ (~IsErrorReply(io[i].s)) => io[i].out.kind = "return"
                /\ ErrorConventionCases(inst, io[i].s, io[i].out)

\* ptwDIAMENTOR read 'E01', a key of the other driver's table only, and raised
\* ConnectionError
C13_Witness ==
    /\ inst = "ptwDIAMENTOR"
    /\ op.kind = "call"
    /\ Len(io) = 2
    /\ io[2].s = <<"E", "0", "1">>
    /\ UnknownError(result)
    /\ result.msg = <<"Unknown read error. Received: ", <<"E", "0", "1">>>>

\* C14: in ptwDIAMENTOR and ptwUNIDOS, with a device that answers every
\* command with one reply line, after any sequence of property gets, property
\* sets and command methods, whatever each ended in, as many replies have been
\* read as commands were written: no reply line is left unread, and each
\* operation has read as often as it wrote.
C14_Synchronised ==
    inst \in PTW =>
        /\ unread = 0
        /\ Called => Len(Reads(io)) = Len(io) - Len(Reads(io))
        /\ (Called /\ result.kind = "raise" /\ io # <<>>) => io[Len(io)].e = "r"

\* a set was accepted, the get that followed was answered with an error reply
\* and raised, and no reply is left unread
C14_Witness ==
    /\ inst = "ptwDIAMENTOR"
    /\ op.kind = "get"
    /\ lastSet.name = "dap_unit"
    /\ Len(io) = 2
    /\ result.kind = "raise"
    /\ result.exc = "ConnectionError"
    /\ unread = 0

\* the commands of the default settings, in the order they are written
DefaultCommands ==
    <<<<"E", "C", "H", "O", "0">>, <<"L", "H", "0">>, <<"M", "A", "1">>, <<"M", "C", "0">>,
      <<"A", "A", "1", ".", "0">>, <<"A", "1", ".", "0">>, <<"V", "3", ".", "0">>>>

\* the commands written during the operation, in order
Written == [i \in 1..Len(io) |-> io[i].s]

\* C15 as stated: a call of ParkerGV6.reset writes 'RESET', then the commands
\* of the default settings, then 'DRIVE1' as the last command, and returns.
C15_ResetEndsEnabled ==
    (inst = "ParkerGV6" /\ op.kind = "call" /\ op.name = "reset") =>
        /\ result.kind = "return"
        /\ Reads(io) = <<>>
        /\ Written = <<<<"R", "E", "S", "E", "T">>>> \o DefaultCommands \o <<<<"D", "R", "I", "V", "E", "1">>>>

\* C16: constructing a ParkerGV6 writes 'ECHO0', 'LH0', 'MA1', 'MC0', 'AA1.0',
\* 'A1.0', 'V3.0' in this order and reads nothing; these are the commands of
\* echo off, of both hardware limits disabled and of absolute positioning;
\* a later call of set_defaults writes the same.
C16_ConstructionDefaults ==
    (/\ inst = "ParkerGV6"
     /\ \/ op.kind = "init"
        \/ op.kind = "call" /\ op.name = "set_defaults") =>
        /\ Reads(io) = <<>>
        /\ Written = DefaultCommands
        /\ <<io[1]>> = ParkerGV6_echo_set(PyBool(FALSE)).io
        /\ <<io[2]>> = ParkerGV6_set_hardware_limits(PyBool(FALSE), PyBool(FALSE)).io
        /\ <<io[3], io[4]>> = ParkerGV6_use_absolute_position.io
        /\ result = Return(PyNone)

\* the driver object has just been constructed and 'V3.0' was written last
C16_Witness ==
    /\ inst = "ParkerGV6"
    /\ op.kind = "init"
    /\ Len(io) = 7
    /\ io[1] = W(<<"E", "C", "H", "O", "0">>)
    /\ io[7] = W(<<"V", "3", ".", "0">>)

\* 'TPE' ends at index i of the text and a signed integer starts right after
FollowsTPE(text, i) ==
    /\ i >= 3
    /\ i < Len(text)
    /\ SubSeq(text, i - 2, i) = <<"T", "P", "E">>
    /\ \/ IsDigit(text[i + 1])
       \/ text[i + 1] = "-" /\ i + 2 <= Len(text) /\ IsDigit(text[i + 2])

HasPosition(text) == \E i \in 1..Len(text) : FollowsTPE(text, i)

\* the integer written after the first 'TPE' that is followed by one
PositionIn(text) ==
    LET i == CHOOSE k \in 1..Len(text) :
                 FollowsTPE(text, k) /\ \A j \in 1..(k - 1) : ~FollowsTPE(text, j)
        neg == text[i + 1] = "-"
        d0 == IF neg THEN i + 2 ELSE i + 1
        end == CHOOSE e \in d0..Len(text) :
                   /\ \A k \in d0..e : IsDigit(text[k])
                   /\ e = Len(text) \/ ~IsDigit(text[e + 1])
        digits == DigitsValue(SubSeq(text, d0, end))
    IN  IF neg THEN -digits ELSE digits

\* C17: in ParkerGV6 the position get writes 'TPE' and returns the signed
\* integer that directly follows 'TPE' in the reply, and None when no integer
\* does; is_moving() returns True exactly when that position is None; the
\* angle get returns None exactly when the position is None and otherwise the
\* position times 0.00045; a reply that holds only a 'TPER' value gives no
\* position.
C17_PositionAfterTPE ==
    (/\ inst = "ParkerGV6"
     /\ \/ op.kind = "get" /\ op.name \in {"position", "angle"}
        \/ op.kind = "call" /\ op.name = "is_moving") =>
        LET text == io[2].out.value.v
            none == ~HasPosition(text)
        IN  /\ io[1] = W(<<"T", "P", "E">>)
            /\ result.kind = "return"
            /\ op.name = "position" =>
                  result.value = IF none THEN PyNone ELSE PyInt(PositionIn(text))
            /\ op.name = "is_moving" => result.value = PyBool(none)
            /\ op.name = "angle" =>
                  result.value = IF none THEN PyNone
                                 ELSE PyFloatQ(PositionIn(text) * 45, 100000)
            /\ io[2].s \in {<<<<"*", "T", "P", "E", "R", "-", "5">>>>, <<<<"*", "T", "P", "E", "R", "1", "2">>>>} => none
            /\ (op.name = "position" /\ io[2].s = <<<<"*", "T", "P", "E", "-", "2", "5", "0">>>>) =>
                  result.value = PyInt(-250)

\* the reply 'TPER7 TPE42' holds an error value and a position: 42 is returned
C17_Witness ==
    /\ inst = "ParkerGV6"
    /\ op.kind = "get"
    /\ op.name = "position"
    /\ io[2].s = <<<<"T", "P", "E", "R", "7", " ", "T", "P", "E", "4", "2">>>>
    /\ result = Return(PyInt(42))

\* C18 as stated: is_calibrated and is_eeprom_ok of ptwDIAMENTOR are properties
\* whose get writes 'CRC', reads the reply and gives True for the status digit
\* '0', False for '1' and an error for anything else.
C18_CrcStatus ==
    (inst = "ptwDIAMENTOR" /\ op.name \in {"is_calibrated", "is_eeprom_ok"}) =>
        /\ op.kind = "get"
        /\ OneWriteOneRead
        /\ io[1] = W(<<"C", "R", "C">>)
        /\ \/ result.kind = "raise" /\ result.exc # "SyntaxError"
           \/ result.kind = "return" /\ result.value.t = "bool"

\* C19 as stated: the meas_result get of ptwDIAMENTOR, for a reply of nine or
\* more fields whose fields 2 and 3 are non-negative integers, returns time =
\* 60 * field 2 + field 3, dap = field 0 without its first character, dap_rate
\* = field 1 and crc = field 8; for a reply of fewer than nine fields it
\* raises.
C19_MeasResult ==
    (/\ inst = "ptwDIAMENTOR"
     /\ op.kind = "get"
     /\ op.name = "meas_result"
     /\ ~IsErrorReply(io[2].s)) =>
        LET fields == Split(io[2].s, ",")
        IN  IF Len(fields) < 9 THEN result.kind = "raise"
            ELSE (AllDigits(fields[3]) /\ AllDigits(fields[4])) =>
                    /\ result.kind = "return"
                    /\ result.value.v.time =
                          PyInt(60 * DigitsValue(fields[3]) + DigitsValue(fields[4]))
                    /\ result.value.v.dap = PyStr(Tail(fields[1]))
                    /\ result.value.v.dap_rate = Cast("float", fields[2])
                    /\ result.value.v.crc = Cast("float", fields[9])

\* the digits the limit is written with: the integer itself, the integer part
\* of 2.5 and of -2.5
LimitDigits(x) ==
    CASE x.t = "int" -> FormatD(x.v, 0)
      [] x = [t |-> "floatlit", lit |-> <<"2", ".", "5">>] -> <<"2">>
      [] x = [t |-> "floatlit", lit |-> <<"-", "2", ".", "5">>] -> <<"-", "2">>

\* C20: ParkerGV6.set_hardware_limits writes one command for every pair of
\* booleans, 'LH' and the digit 2*positive + negative ('LH3', 'LH2', 'LH1',
\* 'LH0'), and reads nothing; set_software_limits writes 'LSPOS<p>' and then
\* 'LSNEG<n>' with both numbers cut to their integer part.
C20_Limits ==
    (inst = "ParkerGV6" /\ op.kind = "call") =>
        /\ op.name = "set_hardware_limits" =>
              LET positive == op.arg.v[1].v
                  negative == op.arg.v[2].v
                  code == 2 * (IF positive THEN 1 ELSE 0) + (IF negative THEN 1 ELSE 0)
              IN  /\ io = <<W(<<"L", "H", DigitChars[code + 1]>>)>>
                  /\ (positive /\ negative) => Written = <<<<"L", "H", "3">>>>
                  /\ (positive /\ ~negative) => Written = <<<<"L", "H", "2">>>>
                  /\ (~positive /\ negative) => Written = <<<<"L", "H", "1">>>>
                  /\ (~positive /\ ~negative) => Written = <<<<"L", "H", "0">>>>
        /\ (op.name = "set_software_limits" /\ op.arg.v[2] # PyNone) =>
              /\ io = <<W(<<"L", "S", "P", "O", "S">> \o LimitDigits(op.arg.v[1])),
                        W(<<"L", "S", "N", "E", "G">> \o LimitDigits(op.arg.v[2]))>>
              /\ result = Return(PyNone)

\* the limits 2.5 and -2.5 were written as 'LSPOS2' and 'LSNEG-2'
C20_Witness ==
    /\ inst = "ParkerGV6"
    /\ op.kind = "call"
    /\ op.name = "set_software_limits"
    /\ Written = <<<<"L", "S", "P", "O", "S", "2">>, <<"L", "S", "N", "E", "G", "-", "2">>>>

====
